---- MODULE Spec2Model ----
(***************************************************************************)
(* Model of the smart overlay annotator (src/smart_overlay_annotator.py):  *)
(* layout analysis, insight categorization and annotation placement of     *)
(* SmartOverlayAnnotator.create_smart_overlay_pdf.                         *)
(*                                                                         *)
(* Lengths are fixed-point numbers with one decimal digit: the value n     *)
(* stands for n/10 PDF points, so that the factors 0.9 (box height cap)    *)
(* and 0.5 (character width) of the source stay exact.  Pt(n) is n points. *)
(* Texts are strings; s[i] is written SubSeq(s, i, i).                     *)
(***************************************************************************)
EXTENDS Integers, Sequences, FiniteSets, TLC

VARIABLES
  pc,                \* position inside create_smart_overlay_pdf
  doc,               \* self.doc: the pages of the opened document (<<>> before open)
  pdf,               \* the file at original_pdf_path: sequence of pages
  annotations_data,  \* the annotations_data argument
  page_layouts,      \* self.page_layouts
  categorized,       \* categorized_annotations (local of create_smart_overlay_pdf)
  all_page_annotations,  \* page_annotations of each page in turn (local of
                     \* _generate_smart_annotation_boxes)
  smart_boxes,       \* smart_boxes (local of create_smart_overlay_pdf)
  drawn,             \* the drawing calls made on the pages of self.doc, in order
  output,            \* the document saved at output_filename
  handle,            \* the file handle of self.doc: "none", "open" or "closed"
  error,             \* the call of create_smart_overlay_pdf that raised, or "none"
  output_file,       \* the file at output_filename: "absent", "partial", "complete"
  now,               \* datetime.utcnow(), in ticks (src/app.py, src/models.py)
  usage_records,     \* the UsageRecord rows of the user: their created_at
  request_pc,        \* position of each /upload request of the user
  subscription_status,  \* User.subscription_status
  runs,              \* the create_combined_pdf calls under way
                     \* (src/combined_pdf_annotator.py)
  temp_files,        \* the temporary files of the working directory, by name
  second             \* datetime.now(), in seconds

\* The variables of the /upload requests
uploadVars == <<now, usage_records, request_pc, subscription_status>>

\* The variables of the create_combined_pdf calls
combinedVars == <<runs, temp_files, second>>

vars == <<pc, doc, pdf, annotations_data, page_layouts, categorized,
          all_page_annotations, smart_boxes, drawn, output, handle, error,
          output_file, now, usage_records, request_pc, subscription_status,
          runs, temp_files, second>>

(***************************************************************************)
(* Arithmetic helpers                                                      *)
(***************************************************************************)
Pt(n) == n * 10

Max(a, b) == IF a >= b THEN a ELSE b

Min(a, b) == IF a <= b THEN a ELSE b

\* Python's int(a / b) for b > 0: truncation toward zero.
IntDiv(a, b) == IF a >= 0 THEN a \div b ELSE -((-a) \div b)

\* x * 0.9 on one-decimal fixed point (exact whenever x is a whole number of points).
Times09(x) == (x * 9) \div 10

RECURSIVE SeqSum(_)
SeqSum(s) == IF s = <<>> THEN 0 ELSE Head(s) + SeqSum(Tail(s))

(***************************************************************************)
(* String helpers (Python str methods)                                     *)
(***************************************************************************)
Char(s, i) == SubSeq(s, i, i)

\* U+2022 BULLET cannot be written in a TLA+ string: this character stands for it.
BULLET == "~"

UPPER == "ABCDEFGHIJKLMNOPQRSTUVWXYZÁÉÍÓÚÜÑ"

LOWER == "abcdefghijklmnopqrstuvwxyzáéíóúüñ"

\* The function from the characters of `from` to those of `to` at the same place
RECURSIVE CharMap(_, _, _)
CharMap(from, to, i) ==
  IF i > Len(from) THEN <<>>
  ELSE (Char(from, i) :> Char(to, i)) @@ CharMap(from, to, i + 1)

UpperChars == {Char(UPPER, i) : i \in 1..Len(UPPER)}

LowerChars == {Char(LOWER, i) : i \in 1..Len(LOWER)}

LowerOf == CharMap(UPPER, LOWER, 1)

UpperOf == CharMap(LOWER, UPPER, 1)

LowerChar(c) == IF c \in UpperChars THEN LowerOf[c] ELSE c

UpperChar(c) == IF c \in LowerChars THEN UpperOf[c] ELSE c

\* str.lower(), by halves
RECURSIVE Lower(_)
Lower(s) ==
  IF Len(s) = 0 THEN ""
  ELSE IF Len(s) = 1 THEN LowerChar(s)
  ELSE Lower(SubSeq(s, 1, Len(s) \div 2)) \o Lower(SubSeq(s, Len(s) \div 2 + 1, Len(s)))

\* sub in s
Contains(s, sub) ==
  \E i \in 1..(Len(s) - Len(sub) + 1) : SubSeq(s, i, i + Len(sub) - 1) = sub

\* s.startswith(p)
StartsWith(s, p) == Len(s) >= Len(p) /\ SubSeq(s, 1, Len(p)) = p

\* s.endswith(p)
EndsWith(s, p) == Len(s) >= Len(p) /\ SubSeq(s, Len(s) - Len(p) + 1, Len(s)) = p

IsSpace(c) == c \in {" ", "\t", "\n", "\r"}

\* str.strip()
Strip(s) ==
  IF \A i \in 1..Len(s) : IsSpace(Char(s, i)) THEN ""
  ELSE LET a == CHOOSE i \in 1..Len(s) :
                  ~IsSpace(Char(s, i)) /\ \A j \in 1..(i - 1) : IsSpace(Char(s, j))
           b == CHOOSE i \in 1..Len(s) :
                  ~IsSpace(Char(s, i)) /\ \A j \in (i + 1)..Len(s) : IsSpace(Char(s, j))
       IN  SubSeq(s, a, b)

\* s.replace(c, '') for a single character c, by halves
RECURSIVE Remove(_, _)
Remove(s, c) ==
  IF Len(s) = 0 THEN ""
  ELSE IF Len(s) = 1 THEN (IF s = c THEN "" ELSE s)
  ELSE Remove(SubSeq(s, 1, Len(s) \div 2), c)
       \o Remove(SubSeq(s, Len(s) \div 2 + 1, Len(s)), c)

\* Position of the first occurrence of the character c in s, 0 if there is none.
IndexOf(s, c) ==
  IF \E i \in 1..Len(s) : Char(s, i) = c
  THEN CHOOSE i \in 1..Len(s) : Char(s, i) = c /\ \A j \in 1..(i - 1) : Char(s, j) # c
  ELSE 0

\* s.split(c) for a single character c; SplitAt cuts s at k, the first c (0: none)
RECURSIVE Split(_, _)
SplitAt(s, c, k) ==
  IF k = 0 THEN <<s>>
  ELSE <<SubSeq(s, 1, k - 1)>> \o Split(SubSeq(s, k + 1, Len(s)), c)

Split(s, c) == SplitAt(s, c, IndexOf(s, c))

\* '\n'.join(lines)
RECURSIVE JoinLines(_)
JoinLines(lines) ==
  IF lines = <<>> THEN ""
  ELSE IF Len(lines) = 1 THEN lines[1]
  ELSE lines[1] \o "\n" \o JoinLines(Tail(lines))

\* Position of the first whitespace character of s, 0 if there is none.
FirstSpace(s) ==
  IF \E i \in 1..Len(s) : IsSpace(Char(s, i))
  THEN CHOOSE i \in 1..Len(s) :
         IsSpace(Char(s, i)) /\ \A j \in 1..(i - 1) : ~IsSpace(Char(s, j))
  ELSE 0

\* s.split(): the maximal runs of non-whitespace characters.  StrippedWords is
\* given the stripped string, CutWord also k, its first whitespace (0: none).
RECURSIVE Words(_)
CutWord(t, k) ==
  IF k = 0 THEN <<t>>
  ELSE <<SubSeq(t, 1, k - 1)>> \o Words(SubSeq(t, k + 1, Len(t)))

StrippedWords(t) == IF t = "" THEN <<>> ELSE CutWord(t, FirstSpace(t))

Words(s) == StrippedWords(Strip(s))

\* s repeated n times
RECURSIVE Repeat(_, _)
Repeat(s, n) == IF n = 0 THEN "" ELSE s \o Repeat(s, n - 1)

(***************************************************************************)
(* The document and the annotation data                                    *)
(***************************************************************************)
\* A page of the document: page.rect and page.get_text("dict").
\* A block has a bbox <<x0, y0, x1, y1>>; has_lines tells whether it has the key
\* "lines" (a text block; an image block has none); lines[i] is the sequence of
\* the span texts of its i-th line.
Block(x0, y0, x1, y1, has_lines, lines) ==
  [bbox |-> <<Pt(x0), Pt(y0), Pt(x1), Pt(y1)>>, has_lines |-> has_lines, lines |-> lines]

Page(w, h, has_blocks, blocks) ==
  [width |-> Pt(w), height |-> Pt(h), has_blocks |-> has_blocks, blocks |-> blocks]

MaxPages == 3

\* Text blocks of a lesson plan page
ObjectivesBlock(x0, y0, x1, y1) ==
  Block(x0, y0, x1, y1, TRUE, << <<"Objetivos:">>, <<"Leer ", "palabras">> >>)

ActivityBlock(x0, y0, x1, y1) ==
  Block(x0, y0, x1, y1, TRUE, << <<"Actividad: nosotros leemos con los estudiantes">> >>)

ImageBlock(x0, y0, x1, y1) == Block(x0, y0, x1, y1, FALSE, <<>>)

\* text over the whole page: no margin qualifies
FullPage ==
  Page(612, 792, TRUE, <<ObjectivesBlock(20, 20, 592, 300),
                         ActivityBlock(20, 310, 592, 772)>>)

\* a wide right margin (240)
WideRightMarginPage ==
  Page(612, 792, TRUE, <<ObjectivesBlock(50, 50, 362, 200),
                         ImageBlock(60, 210, 300, 400),
                         ActivityBlock(50, 410, 362, 742)>>)

\* The pages a document is made of (sizes in points).
PageOptions ==
  { \* no "blocks" key at all
    Page(612, 792, FALSE, <<>>),
    \* an empty block list
    Page(612, 792, TRUE, <<>>),
    FullPage,
    WideRightMarginPage,
    \* a narrow right margin (90)
    Page(612, 792, TRUE, <<ActivityBlock(50, 50, 512, 742)>>),
    \* only the left margin qualifies (110)
    Page(612, 792, TRUE, <<ObjectivesBlock(120, 50, 590, 742)>>),
    \* only the top area qualifies (172): room for one box and 47 points more
    Page(612, 792, TRUE, <<ActivityBlock(50, 182, 570, 742)>>),
    \* a narrow page (A5) full of text
    Page(420, 595, TRUE, <<ObjectivesBlock(20, 20, 400, 575)>>),
    \* a scanned page: the image of the whole page under its text
    Page(612, 792, TRUE, <<ImageBlock(0, 0, 612, 792),
                           ActivityBlock(50, 50, 512, 742)>>) }

\* The pages that fill a document up around a page of PageOptions
FillerPages == {FullPage, WideRightMarginPage}

RECURSIVE SeqsOfLen(_, _)
SeqsOfLen(S, n) ==
  IF n = 0 THEN {<<>>}
  ELSE {Append(q, e) : q \in SeqsOfLen(S, n - 1), e \in S}

\* The documents: a file that opens with no page at all (len(self.doc) is 0),
\* and 1..MaxPages pages, any page of PageOptions first or last and filler pages
\* for the others
Documents ==
  {<<>>} \cup
  UNION {{<<p>> \o r : p \in PageOptions, r \in SeqsOfLen(FillerPages, n)}
         \cup {r \o <<p>> : p \in PageOptions, r \in SeqsOfLen(FillerPages, n)} :
         n \in 0..(MaxPages - 1)}

\* Sections of an AI response, by category
EngagementSections ==
  << <<>>,
     <<"### 1. **Student Engagement Opportunities**",
       "- **Think-pair-share**: Let partners retell the story">>,
     <<"### 1. **Student Engagement Opportunities**",
       "",
       "To enhance engagement, consider the following:",
       "- Use movement songs for each new sound",
       "* **Phonics card games**: Small groups sort picture cards by their first sound and explain the choice",
       "- Short: ok">>,
     <<"### 1. **Student Engagement Opportunities**",
       "  ~ Invite families to share stories  ",
       "- Add a closing circle for reflection",
       "- **Choral reading**: Read the chart together twice",
       "- Let students pick the next word list">>,
     \* a hyphen and a '#' inside a bullet, a standalone sentence, a long word
     <<"### 1. **Student Engagement Opportunities**",
       "- Use think-pair-share to retell item #3 of the story",
       "Students answer faster when they can move around.",
       "- Visit www.lecturasparatodos.example.org/fonetica for card games">> >>

DifferentiationSections ==
  << <<>>,
     <<"### 2. **Differentiation Strategies**">>,
     <<"### 2. **Differentiation Strategies**",
       "Provide sentence frames for emerging readers.",
       "- Offer audio support at the listening center",
       "- " \o Repeat("Pair fluent readers with partners who need more practice and ", 3)
            \o "rotate the pairs weekly">>,
     <<"## Differentiation Strategies",
       "- Offer audio support at the listening center",
       "- **Tiered tasks**: Three levels of word lists",
       "- Give extra time for the writing task">> >>

StrengthSections ==
  << <<>>,
     <<"### 3. **Pedagogical Strengths**",
       "- Clear routines help every student">>,
     <<"### 3. **Fortalezas pedagógicas**",
       "- The lesson builds on prior knowledge",
       "- **Modeling**: The teacher models each sound first",
       "- Materials are ready before the lesson starts",
       "### 4. **Resource Optimization**",
       "- Reuse the picture cards in the next unit">>,
     \* the '## <Category>' header convention
     <<"## Pedagogical Strengths",
       "- Clear routines help every student">> >>

AnnotationText(e, d, s) ==
  JoinLines(EngagementSections[e] \o DifferentiationSections[d] \o StrengthSections[s])

\* custom_category_definitions (ordered)
CustomDefinitions ==
  << <<"focus_talk", "Student Engagement Opportunities">>,
     <<"focus_levels", "Differentiation Strategies">>,
     <<"focus_strong", "Pedagogical Strengths">>,
     <<"focus_tools", "Resource Optimization">>,
     <<"focus_family", "Family Involvement">>,
     <<"focus_more", "Extension Activities">> >>

\* parameters_used without / with the key custom_category_definitions
NoParameters == [has_custom |-> FALSE, custom_category_definitions |-> <<>>]

CustomParameters(n) ==
  [has_custom |-> TRUE, custom_category_definitions |-> SubSeq(CustomDefinitions, 1, n)]

\* annotations_data: has_annotations tells whether it has the key 'annotations'
AnnotationsData(text, parameters) ==
  [has_annotations |-> TRUE, annotations |-> text, parameters_used |-> parameters]

NoAnnotationsData ==
  [has_annotations |-> FALSE, annotations |-> "", parameters_used |-> NoParameters]

\* The annotation data of the categorization runs
AnnotationInputs ==
  {NoAnnotationsData}
  \cup {AnnotationsData(AnnotationText(e, d, s), q) :
          e \in 1..Len(EngagementSections), d \in 1..Len(DifferentiationSections),
          s \in 1..Len(StrengthSections),
          q \in {NoParameters, CustomParameters(3), CustomParameters(6)}}

\* The annotation data of the whole-pipeline runs: with the default taxonomy the
\* texts yield 0, 1, 2, ... 10 insights in this order
PlanInputs ==
  {NoAnnotationsData}
  \cup {AnnotationsData(AnnotationText(t[1], t[2], t[3]), NoParameters) :
          t \in {<<1, 1, 1>>, <<2, 1, 1>>, <<2, 1, 2>>, <<1, 3, 1>>, <<2, 3, 1>>,
                 <<3, 3, 1>>, <<3, 3, 2>>, <<4, 3, 2>>, <<2, 3, 3>>, <<3, 3, 3>>,
                 <<4, 4, 3>>, <<5, 1, 1>>}}
  \cup {AnnotationsData(AnnotationText(3, 4, 3), CustomParameters(6)),
        AnnotationsData(AnnotationText(4, 3, 2), CustomParameters(3))}

(***************************************************************************)
(* Layout analysis                                                         *)
(***************************************************************************)
BBoxArea(bbox) == (bbox[3] - bbox[1]) * (bbox[4] - bbox[2])

\* Stable insertion of e into the list s sorted by area, largest first
\* (list.sort(key=area, reverse=True) keeps equal elements in input order).
RECURSIVE InsertByArea(_, _)
InsertByArea(s, e) ==
  IF s = <<>> THEN <<e>>
  ELSE IF Head(s).area >= e.area THEN <<Head(s)>> \o InsertByArea(Tail(s), e)
  ELSE <<e>> \o s

RECURSIVE SortByArea(_)
SortByArea(s) ==
  IF s = <<>> THEN <<>>
  ELSE InsertByArea(SortByArea(SubSeq(s, 1, Len(s) - 1)), s[Len(s)])

\* The content area of a text block
ContentArea(b) ==
  [type |-> "text_block", bbox |-> b.bbox, area |-> BBoxArea(b.bbox),
   line_count |-> Len(b.lines)]

RECURSIVE ContentAreas(_)
ContentAreas(blocks) ==
  IF blocks = <<>> THEN <<>>
  ELSE (IF Head(blocks).has_lines THEN <<ContentArea(Head(blocks))>> ELSE <<>>)
       \o ContentAreas(Tail(blocks))

identify_content_areas(page) ==
  IF page.has_blocks THEN SortByArea(ContentAreas(page.blocks)) ELSE <<>>

RECURSIVE FoldMin(_, _, _)
FoldMin(blocks, k, init) ==
  IF blocks = <<>> THEN init
  ELSE FoldMin(Tail(blocks), k, Min(init, Head(blocks).bbox[k]))

RECURSIVE FoldMax(_, _, _)
FoldMax(blocks, k, init) ==
  IF blocks = <<>> THEN init
  ELSE FoldMax(Tail(blocks), k, Max(init, Head(blocks).bbox[k]))

calculate_margins(page) ==
  IF ~page.has_blocks
  THEN [left |-> Pt(50), right |-> Pt(50), top |-> Pt(50), bottom |-> Pt(50)]
  ELSE LET min_x == FoldMin(page.blocks, 1, page.width)
           max_x == FoldMax(page.blocks, 3, 0)
           min_y == FoldMin(page.blocks, 2, page.height)
           max_y == FoldMax(page.blocks, 4, 0)
       IN  [left   |-> Max(Pt(20), min_x - Pt(10)),
            right  |-> Max(Pt(20), page.width - max_x - Pt(10)),
            top    |-> Max(Pt(20), min_y - Pt(10)),
            bottom |-> Max(Pt(20), page.height - max_y - Pt(10))]

Region(type, x, y, width, height, priority) ==
  [type |-> type, x |-> x, y |-> y, width |-> width, height |-> height,
   priority |-> priority]

NoFallbackOverlays(page) == <<>>

\* both overlays whatever the page width
BothOverlays(page) ==
  <<Region("right_overlay", page.width - Pt(200), Pt(80), Pt(180),
           page.height - Pt(160), 1),
    Region("left_overlay", Pt(20), Pt(80), Pt(180), page.height - Pt(160), 2)>>

\* The overlay regions used when no margin qualifies
FallbackOverlays(page) ==
  <<Region("right_overlay", page.width - Pt(200), Pt(80), Pt(180),
           page.height - Pt(160), 1)>>
  \o (IF page.width > Pt(500)
      THEN <<Region("left_overlay", Pt(20), Pt(80), Pt(180),
                    page.height - Pt(160), 2)>>
      ELSE <<>>)

\* white_spaces, given the margins of the page
WhiteSpaces(page, margins) ==
  LET right == IF margins.right > Pt(60)
               THEN <<Region("right_margin", page.width - margins.right + Pt(10),
                             Pt(80), Max(Pt(150), margins.right - Pt(30)),
                             page.height - Pt(160), 1)>>
               ELSE <<>>
      left  == IF margins.left > Pt(60)
               THEN <<Region("left_margin", Pt(10), Pt(80),
                             Max(Pt(150), margins.left - Pt(30)),
                             page.height - Pt(160), 2)>>
               ELSE <<>>
      top   == IF margins.top > Pt(40)
               THEN <<Region("top_area", margins.left, Pt(10),
                             page.width - margins.left - margins.right,
                             Max(Pt(50), margins.top - Pt(20)), 3)>>
               ELSE <<>>
      white_spaces == right \o left \o top
  IN  IF white_spaces = <<>> THEN FallbackOverlays(page) ELSE white_spaces

find_white_spaces(page) == WhiteSpaces(page, calculate_margins(page))

\* total_text_area / page_area, kept as the exact fraction <<numerator, denominator>>
\* (<<0, 1>> is 0.0).
calculate_text_density(page) ==
  IF ~page.has_blocks THEN <<0, 1>>
  ELSE LET total_text_area ==
             SeqSum([i \in 1..Len(page.blocks) |-> BBoxArea(page.blocks[i].bbox)])
           page_area == page.width * page.height
       IN  IF page_area > 0 THEN <<total_text_area, page_area>> ELSE <<0, 1>>

\* section_keywords, in dict order
section_keywords ==
  << <<"objectives", <<"objetivos", "objectives", "objetivo">> >>,
     <<"materials",  <<"materiales", "materials", "material">> >>,
     <<"activities", <<"actividad", "activity", "nosotros", "leemos">> >>,
     <<"assessment", <<"evaluación", "assessment", "compartir", "reflexionar">> >> >>

\* block_text of a block: every span text lowercased and followed by a space
RECURSIVE ConcatAll(_)
ConcatAll(strs) == IF strs = <<>> THEN "" ELSE Head(strs) \o ConcatAll(Tail(strs))

block_text(b) ==
  ConcatAll([i \in 1..Len(b.lines) |->
               ConcatAll([j \in 1..Len(b.lines[i]) |-> Lower(b.lines[i][j]) \o " "])])

\* block_text tabulated over the blocks of PageOptions: TLC evaluates the table
\* once instead of once per state; the values are those of block_text.
AllBlocks == UNION {{p.blocks[i] : i \in 1..Len(p.blocks)} : p \in PageOptions}

BlockTextTable == [b \in AllBlocks |-> block_text(b)]

BlockText(b) == IF b \in AllBlocks THEN BlockTextTable[b] ELSE block_text(b)

\* any(keyword in text for keyword in keywords)
AnyKeywordIn(keywords, text) == \E j \in 1..Len(keywords) : Contains(text, keywords[j])

\* text[:100]
First100(text) == SubSeq(text, 1, Min(100, Len(text)))

\* The first section type (from the k-th on) a keyword of which is in the block
\* text; 0 if there is none
RECURSIVE SectionTypeFrom(_, _)
SectionTypeFrom(text, k) ==
  IF k > Len(section_keywords) THEN 0
  ELSE IF AnyKeywordIn(section_keywords[k][2], text) THEN k
  ELSE SectionTypeFrom(text, k + 1)

\* What a block with lines adds to sections, given its block_text and k, the
\* section type found (0: none)
SectionEntry(b, text, k) ==
  IF k = 0 THEN <<>>
  ELSE <<[type |-> section_keywords[k][1], bbox |-> b.bbox,
          text_sample |-> First100(text)]>>

SectionOfText(b, text) == SectionEntry(b, text, SectionTypeFrom(text, 1))

RECURSIVE SectionsOf(_)
SectionsOf(blocks) ==
  IF blocks = <<>> THEN <<>>
  ELSE (IF Head(blocks).has_lines
        THEN SectionOfText(Head(blocks), BlockText(Head(blocks))) ELSE <<>>)
       \o SectionsOf(Tail(blocks))

identify_sections(page) ==
  IF ~page.has_blocks THEN <<>> ELSE SectionsOf(page.blocks)

\* layout_info of one page, as built in the loop of _analyze_page_layouts
LayoutInfo(page_num, page) ==
  [page_num |-> page_num,
   page_rect |-> [width |-> page.width, height |-> page.height],
   content_areas |-> identify_content_areas(page),
   margins |-> calculate_margins(page),
   white_spaces |-> find_white_spaces(page),
   section_boundaries |-> identify_sections(page),
   text_density |-> calculate_text_density(page)]

\* page numbers are 0-based as in the source; page p is d[p + 1]
analyze_page_layouts(d) == [i \in 1..Len(d) |-> LayoutInfo(i - 1, d[i])]

(***************************************************************************)
(* Insight categorization                                                  *)
(***************************************************************************)
IsBullet(line) ==
  StartsWith(line, "-") \/ StartsWith(line, "*") \/ StartsWith(line, BULLET)

IsNumbered(line) ==
  \E d \in {"1.", "2.", "3.", "4.", "5.", "6.", "7.", "8."} : StartsWith(line, d)

IsIntro(line) ==
  \E p \in {"To enhance", "To accommodate", "For formative", "For summative",
            "To better", "To deepen"} : StartsWith(line, p)

\* any(sn.lower() in line.lower() for sn in section_names), given the lowered
\* line and the lowered names
NamesSection(low_line, low_names) ==
  \E k \in 1..Len(low_names) : Contains(low_line, low_names[k])

\* detail if it is at most 60 characters long, else main_concept
DetailOrConcept(main_concept, detail) ==
  IF Len(detail) <= 60 THEN detail ELSE main_concept

\* clean_line after the colon rule; k is the place of its first ':' (0: none)
CutAtColon(clean_line, k) ==
  IF k = 0 THEN clean_line
  ELSE DetailOrConcept(Strip(SubSeq(clean_line, 1, k - 1)),
                       Strip(SubSeq(clean_line, k + 1, Len(clean_line))))

ColonRule(clean_line) == CutAtColon(clean_line, IndexOf(clean_line, ":"))

\* The text retained for a bullet line (before the length test).
BulletText(line) ==
  ColonRule(Strip(Remove(Remove(Remove(Remove(line, "*"), "#"), "-"), BULLET)))

\* if clean_line and len(clean_line) > 10: points.append(clean_line)
AppendIfLong(clean_line) ==
  IF clean_line # "" /\ Len(clean_line) > 10 THEN <<clean_line>> ELSE <<>>

\* The points one line of a section contributes (none or one).
LinePoints(line) ==
  IF IsIntro(line) THEN <<>>
  ELSE IF IsBullet(line) THEN AppendIfLong(BulletText(line))
  ELSE IF Len(line) > 20 /\ ~EndsWith(line, ":") /\ ~Contains(line, "**")
       THEN <<Strip(Remove(line, "*"))>>
  ELSE <<>>

RetainAll(points) == points

\* points[:3]
RetainFirst3(points) == SubSeq(points, 1, Min(3, Len(points)))

\* What the loop reads of a line of the text: line.strip(), its lowercase, and
\* whether it holds a markdown marker ('**' in line or '##' in line or '*' in line).
StrippedLineView(line) ==
  [line |-> line, low |-> Lower(line),
   marked |-> Contains(line, "**") \/ Contains(line, "##") \/ Contains(line, "*")]

LineView(raw) == StrippedLineView(Strip(raw))

\* lines = text.split('\n'), each line as the loop sees it
RECURSIVE ViewsOf(_)
ViewsOf(lines) ==
  IF lines = <<>> THEN <<>> ELSE <<LineView(Head(lines))>> \o ViewsOf(Tail(lines))

LineViews(text) == ViewsOf(Split(text, "\n"))

\* The loop over the lines: i is the next line, in_section and points are the
\* loop's variables; the result is points at the end of the loop.  ExtractStep is
\* the loop's body on line i, names telling whether the line holds a section name.
RECURSIVE ExtractLoop(_, _, _, _, _)
ExtractStep(views, low_names, i, in_section, points, names) ==
  IF names /\ views[i].marked
  THEN ExtractLoop(views, low_names, i + 1, TRUE, points)
  ELSE IF /\ in_section
          /\ \/ StartsWith(views[i].line, "###")
             \/ IsNumbered(views[i].line) /\ Contains(views[i].line, "**")
          /\ ~names
  THEN points
  ELSE IF in_section /\ views[i].line # ""
  THEN ExtractLoop(views, low_names, i + 1, in_section,
                   points \o LinePoints(views[i].line))
  ELSE ExtractLoop(views, low_names, i + 1, in_section, points)

ExtractLoop(views, low_names, i, in_section, points) ==
  IF i > Len(views) THEN points
  ELSE ExtractStep(views, low_names, i, in_section, points,
                   NamesSection(views[i].low, low_names))

\* _extract_annotation_points on the lines of the text
RECURSIVE LowerAll(_)
LowerAll(names) ==
  IF names = <<>> THEN <<>> ELSE <<Lower(Head(names))>> \o LowerAll(Tail(names))

\* in_section left set by an earlier call
ExtractPointsSticky(views, section_names) ==
  RetainFirst3(ExtractLoop(views, LowerAll(section_names), 1, categorized # <<>>, <<>>))

ExtractPoints(views, section_names) ==
  RetainFirst3(ExtractLoop(views, LowerAll(section_names), 1, FALSE, <<>>))

extract_annotation_points(text, section_names) ==
  ExtractPoints(LineViews(text), section_names)

\* The default taxonomy: <<priority level, <<category, section names>>...>>
DefaultTaxonomy ==
  << <<"high_priority",
       << <<"engagement", <<"Student Engagement Opportunities",
                            "Oportunidades para la participación de los estudiantes",
                            "participación de los estudiantes">> >>,
          <<"improvement", <<"Areas for Improvement", "Áreas de mejora", "mejora">> >> >> >>,
     <<"medium_priority",
       << <<"differentiation", <<"Differentiation Strategies",
                                 "Estrategias de diferenciación", "diferenciación">> >>,
          <<"assessment", <<"Assessment Suggestions", "Sugerencias de evaluación",
                            "evaluación">> >> >> >>,
     <<"low_priority",
       << <<"strength", <<"Pedagogical Strengths", "Fortalezas pedagógicas",
                          "Fortalezas">> >>,
          <<"resource", <<"Resource Optimization", "Optimización de recursos",
                          "recursos">> >>,
          <<"extension", <<"Extension Activities", "Actividades de extensión",
                           "extensión">> >>,
          <<"cultural", <<"Cultural/Linguistic Considerations",
                          "Consideraciones culturales/lingüísticas", "culturales">> >> >> >> >>

\* str(n) for 1 <= n <= 99
IntToStr(n) ==
  LET D(k) == SubSeq("0123456789", k + 1, k + 1)
  IN  IF n < 10 THEN D(n) ELSE D(n \div 10) \o D(n % 10)

\* str.upper(), by halves
RECURSIVE Upper(_)
Upper(s) ==
  IF Len(s) = 0 THEN ""
  ELSE IF Len(s) = 1 THEN UpperChar(s)
  ELSE Upper(SubSeq(s, 1, Len(s) \div 2)) \o Upper(SubSeq(s, Len(s) \div 2 + 1, Len(s)))

\* search_terms of the i-th custom category (i counts from 0)
SearchTerms(i, definition) ==
  << "### " \o IntToStr(i + 1) \o ". **" \o definition \o "**",
     IntToStr(i + 1) \o ". **" \o definition \o "**",
     "**" \o definition \o "**",
     definition,
     Lower(definition),
     Upper(definition) >>

\* custom_definitions is the ordered dict as a sequence of <<category_key, definition>>.
\* The categories lo..hi (counted from 1) of one priority level, given the lines
\* of the text:
RECURSIVE CustomBucket(_, _, _, _)
CustomBucket(views, custom_definitions, lo, hi) ==
  IF lo > hi \/ lo > Len(custom_definitions) THEN <<>>
  ELSE << <<custom_definitions[lo][1],
            ExtractPoints(views, SearchTerms(lo - 1, custom_definitions[lo][2]))>> >>
       \o CustomBucket(views, custom_definitions, lo + 1, hi)

CategorizeCustomLines(views, custom_definitions) ==
  << <<"high_priority", CustomBucket(views, custom_definitions, 1, 2)>>,
     <<"medium_priority", CustomBucket(views, custom_definitions, 3, 5)>>,
     <<"low_priority",
       CustomBucket(views, custom_definitions, 6, Len(custom_definitions))>> >>

categorize_custom_annotations(annotation_text, custom_definitions) ==
  CategorizeCustomLines(LineViews(annotation_text), custom_definitions)

\* data is annotations_data and parameters its 'parameters_used'.
\* The result is the ordered dict level -> (ordered dict category -> points),
\* each dict a sequence of <<key, value>>; {} is <<>>.
RECURSIVE DefaultBucket(_, _)
DefaultBucket(views, categories) ==
  IF categories = <<>> THEN <<>>
  ELSE << <<Head(categories)[1], ExtractPoints(views, Head(categories)[2])>> >>
       \o DefaultBucket(views, Tail(categories))

CategorizeDefaultLines(views) ==
  << <<DefaultTaxonomy[1][1], DefaultBucket(views, DefaultTaxonomy[1][2])>>,
     <<DefaultTaxonomy[2][1], DefaultBucket(views, DefaultTaxonomy[2][2])>>,
     <<DefaultTaxonomy[3][1], DefaultBucket(views, DefaultTaxonomy[3][2])>> >>

categorize_annotations(data, parameters) ==
  IF ~data.has_annotations THEN <<>>
  ELSE IF parameters.has_custom
  THEN categorize_custom_annotations(data.annotations,
                                     parameters.custom_category_definitions)
  ELSE CategorizeDefaultLines(LineViews(data.annotations))

\* categorize_annotations tabulated over PlanInputs (evaluated by TLC once per
\* input instead of once per state); the values are those of
\* categorize_annotations.
CategorizedTable ==
  [data \in PlanInputs |-> categorize_annotations(data, data.parameters_used)]

Categorize(data) ==
  IF data \in PlanInputs THEN CategorizedTable[data]
  ELSE categorize_annotations(data, data.parameters_used)

\* Every insight text a categorization of PlanInputs retains
PointsOf(cat) ==
  UNION {UNION {{cat[l][2][c][2][k] : k \in 1..Len(cat[l][2][c][2])} :
                c \in 1..Len(cat[l][2])} :
         l \in 1..Len(cat)}

InsightTexts == UNION {PointsOf(CategorizedTable[data]) : data \in PlanInputs}

(***************************************************************************)
(* Placement planning                                                      *)
(***************************************************************************)
\* d.get(key, <<>>) on an ordered dict d (a sequence of <<key, value>>)
HasKey(d, key) == \E k \in 1..Len(d) : d[k][1] = key

DictGet(d, key) ==
  IF HasKey(d, key) THEN d[CHOOSE k \in 1..Len(d) : d[k][1] = key][2] ELSE <<>>

PriorityLevels == <<"high_priority", "medium_priority", "low_priority">>

LowFirstLevels == <<"low_priority", "medium_priority", "high_priority">>

\* priority_num of the n-th level of PriorityLevels
PriorityNum(level) ==
  IF level = "high_priority" THEN 1 ELSE IF level = "medium_priority" THEN 2 ELSE 3

\* all_annotations: the (annotation_text, ann_type, priority_num) tuples in the
\* order of the three nested loops
FlattenLevels(categorized_annotations, levels) ==
  LET OfCategory(entry, level) ==
        [k \in 1..Len(entry[2]) |->
           [text |-> entry[2][k], ann_type |-> entry[1], priority |-> PriorityNum(level)]]
      RECURSIVE OfBucket(_, _, _)
      OfBucket(bucket, level, c) ==
        IF c > Len(bucket) THEN <<>>
        ELSE OfCategory(bucket[c], level) \o OfBucket(bucket, level, c + 1)
      RECURSIVE OfLevels(_)
      OfLevels(l) ==
        IF l > Len(levels) THEN <<>>
        ELSE OfBucket(DictGet(categorized_annotations, levels[l]), levels[l], 1)
             \o OfLevels(l + 1)
  IN  OfLevels(1)

AllAnnotationsLowFirst(categorized_annotations) ==
  FlattenLevels(categorized_annotations, LowFirstLevels)

all_annotations_of(categorized_annotations) ==
  FlattenLevels(categorized_annotations, PriorityLevels)

\* Python's s[start:end] for 0 <= start, end (0-based, end exclusive, clamped)
Slice(s, start, end) == SubSeq(s, Min(start, Len(s)) + 1, Min(end, Len(s)))

CeilPerPage(total, page_count) == Max(1, (total + page_count - 1) \div page_count)

annotations_per_page(total, page_count) == Max(1, total \div page_count)

\* start_idx of page page_num (0-based)
StartIdx(page_num, page_count, total) ==
  page_num * annotations_per_page(total, page_count)

EndIdxNoRemainder(page_num, page_count, total) ==
  StartIdx(page_num, page_count, total) + annotations_per_page(total, page_count)

\* end_idx of page page_num
EndIdx(page_num, page_count, total) ==
  IF page_num = page_count - 1 THEN total
  ELSE StartIdx(page_num, page_count, total) + annotations_per_page(total, page_count)

\* page_annotations of page page_num
page_annotations_of(all_annotations, page_count, page_num) ==
  Slice(all_annotations,
        StartIdx(page_num, page_count, Len(all_annotations)),
        EndIdx(page_num, page_count, Len(all_annotations)))

\* page_annotations of every page, in page order
distribute(all_annotations, page_count) ==
  [p \in 1..page_count |-> page_annotations_of(all_annotations, page_count, p - 1)]

\* text.split() tabulated over InsightTexts; the values are those of Words.
WordsTable == [text \in InsightTexts |-> Words(text)]

WordsOf(text) == IF text \in InsightTexts THEN WordsTable[text] ELSE Words(text)

FontSize(priority) == IF priority = 1 THEN 10 ELSE IF priority = 2 THEN 9 ELSE 8

\* The word-wrap loop: returns the lines (the last one added after the loop).
RECURSIVE WrapLoop(_, _, _, _, _)
WrapLoop(words, i, max_chars_per_line, lines, current_line) ==
  IF i > Len(words)
  THEN (IF current_line # "" THEN Append(lines, current_line) ELSE lines)
  ELSE LET test_line ==
             current_line \o (IF current_line # "" THEN " " ELSE "") \o words[i]
       IN  IF Len(test_line) <= max_chars_per_line \/ current_line = ""
           THEN WrapLoop(words, i + 1, max_chars_per_line, lines, test_line)
           ELSE WrapLoop(words, i + 1, max_chars_per_line,
                         Append(lines, current_line), words[i])

RECURSIVE MaxLen(_)
MaxLen(lines) == IF lines = <<>> THEN 0 ELSE Max(Len(Head(lines)), MaxLen(Tail(lines)))

\* The dimensions of the wrapped lines; char_width, line_height, max_width and
\* the result's widths and heights in tenths of a point
DimensionsOf(lines, char_width, line_height, max_width) ==
  [actual_width |-> Min(max_width, MaxLen(lines) * char_width + Pt(12)),
   total_height |-> Len(lines) * line_height + Pt(16),
   lines |-> lines]

\* font_size in points: char_width is font_size * 0.5 points
calculate_text_dimensions(text, font_size, max_width) ==
  DimensionsOf(WrapLoop(WordsOf(text), 1, IntDiv(max_width, font_size * 5), <<>>, ""),
               font_size * 5, Pt(font_size + 3), max_width)

ClampMaxWins(min_v, actual, max_v) == Min(max_v, Max(min_v, actual))

\* max(min_v, min(actual, max_v)): final_width and final_height
FinalSize(min_v, actual, max_v) == Max(min_v, Min(actual, max_v))

\* (final_width, final_height), given the text's dimensions
FinalSizes(dims, max_width, max_height) ==
  [width |-> FinalSize(Pt(150), dims.actual_width, max_width),
   height |-> FinalSize(Pt(50), dims.total_height, max_height)]

SizeWithin(text, font_size, max_width, max_height) ==
  FinalSizes(calculate_text_dimensions(text, font_size, max_width), max_width, max_height)

\* no cap of 300 on the width and of 400 on the height
UncappedBoxSize(text, priority, available_width, available_height) ==
  SizeWithin(text, FontSize(priority), available_width - Pt(20),
             Times09(available_height))

calculate_optimal_box_size(text, priority, available_width, available_height) ==
  SizeWithin(text, FontSize(priority), Min(available_width - Pt(20), Pt(300)),
             Min(Times09(available_height), Pt(400)))

\* The fallback palette of _load_theme_colors (themes.json is not part of the
\* sources), components in tenths; annotation_colors.get(ann_type, gray)
annotation_colors ==
  << <<"engagement", <<1, 7, 2>> >>, <<"differentiation", <<9, 5, 1>> >>,
     <<"assessment", <<5, 1, 8>> >>, <<"improvement", <<8, 1, 1>> >>,
     <<"strength", <<1, 4, 8>> >>, <<"resource", <<6, 6, 1>> >>,
     <<"extension", <<8, 1, 6>> >>, <<"cultural", <<1, 8, 6>> >> >>

ColorOf(ann_type) ==
  IF HasKey(annotation_colors, ann_type) THEN DictGet(annotation_colors, ann_type)
  ELSE <<5, 5, 5>>

\* highlight_keywords of _find_content_highlights
highlight_keywords ==
  << <<"engagement", <<"actividad", "juego", "participar", "interactivo", "estudiantes">> >>,
     <<"differentiation", <<"nivel", "diferentes", "apoyo", "adaptación", "individual">> >>,
     <<"assessment", <<"evaluación", "observar", "revisar", "compartir", "reflexionar">> >>,
     <<"improvement", <<"mejorar", "añadir", "incluir", "considerar", "desarrollar">> >>,
     <<"strength", <<"efectivo", "bueno", "excelente", "apropiado", "adecuado">> >>,
     <<"resource", <<"materiales", "recursos", "tarjetas", "libro", "apoyo">> >>,
     <<"extension", <<"extensión", "adicional", "más", "continuar", "ampliar">> >>,
     <<"cultural", <<"cultura", "español", "idioma", "lengua", "nativo">> >> >>

\* d is self.doc; <<>> is the empty list
\* The ContentHighlight of a block whose block_text is text
ContentHighlight(b, text, annotation_type) ==
  [x |-> b.bbox[1], y |-> b.bbox[2],
   width |-> b.bbox[3] - b.bbox[1], height |-> b.bbox[4] - b.bbox[2],
   text_content |-> First100(text),
   highlight_color |->
     IF HasKey(annotation_colors, annotation_type)
     THEN DictGet(annotation_colors, annotation_type) ELSE <<10, 10, 0>>,
   annotation_type |-> annotation_type]

HighlightOfText(b, text, keywords, annotation_type) ==
  IF AnyKeywordIn(keywords, text) THEN <<ContentHighlight(b, text, annotation_type)>>
  ELSE <<>>

\* highlights before the cut to two
RECURSIVE Highlights(_, _, _)
Highlights(blocks, keywords, annotation_type) ==
  IF blocks = <<>> THEN <<>>
  ELSE (IF Head(blocks).has_lines
        THEN HighlightOfText(Head(blocks), BlockText(Head(blocks)), keywords,
                             annotation_type)
        ELSE <<>>)
       \o Highlights(Tail(blocks), keywords, annotation_type)

\* highlights[:2]
FirstTwo(highlights) == SubSeq(highlights, 1, Min(2, Len(highlights)))

find_content_highlights(d, page_num, annotation_type) ==
  IF d = <<>> \/ page_num >= Len(d) THEN <<>>
  ELSE IF ~d[page_num + 1].has_blocks THEN <<>>
  ELSE FirstTwo(Highlights(d[page_num + 1].blocks,
                           DictGet(highlight_keywords, annotation_type),
                           annotation_type))

\* relevance_map of _find_content_relevance
content_relevance_map ==
  << <<"engagement", "objectives">>, <<"differentiation", "activities">>,
     <<"assessment", "assessment">>, <<"improvement", "activities">>,
     <<"strength", "objectives">>, <<"resource", "materials">> >>

find_content_relevance(annotation_type, sections) ==
  LET relevant_section ==
        IF HasKey(content_relevance_map, annotation_type)
        THEN DictGet(content_relevance_map, annotation_type) ELSE "general"
  IN  IF \E k \in 1..Len(sections) : sections[k].type = relevant_section
      THEN "Related to " \o relevant_section \o " section"
      ELSE "General insight"

\* relevance_map of _find_relevant_content_area
relevance_map ==
  << <<"engagement", <<"objectives", "activities">> >>,
     <<"differentiation", <<"activities", "materials">> >>,
     <<"assessment", <<"assessment", "activities">> >>,
     <<"improvement", <<"activities", "objectives">> >>,
     <<"strength", <<"objectives", "activities">> >>,
     <<"resource", <<"materials", "activities">> >>,
     <<"extension", <<"activities">> >>,
     <<"cultural", <<"objectives", "activities">> >> >>

InSeq(x, s) == \E k \in 1..Len(s) : s[k] = x

\* (x, y, width, height) of a bbox; <<>> is None
AreaOfBBox(bbox) == <<bbox[1], bbox[2], bbox[3] - bbox[1], bbox[4] - bbox[2]>>

find_relevant_content_area(annotation_type, sections, content_areas) ==
  LET target_sections ==
        IF HasKey(relevance_map, annotation_type)
        THEN DictGet(relevance_map, annotation_type) ELSE <<"activities">>
      Hit(k) == InSeq(sections[k].type, target_sections)
  IN  IF \E k \in 1..Len(sections) : Hit(k)
      THEN AreaOfBBox(sections[CHOOSE k \in 1..Len(sections) :
                                  Hit(k) /\ \A m \in 1..(k - 1) : ~Hit(m)].bbox)
      ELSE IF content_areas # <<>>
      THEN \* max(content_areas, key=area): the first of the largest
           AreaOfBBox(content_areas[CHOOSE k \in 1..Len(content_areas) :
                        /\ \A m \in 1..Len(content_areas) :
                             content_areas[m].area <= content_areas[k].area
                        /\ \A m \in 1..(k - 1) :
                             content_areas[m].area < content_areas[k].area].bbox)
      ELSE <<>>

\* The best white space: sorted(white_spaces, key=priority)[0], the first of
\* the regions of least priority number
primary_space_of(white_spaces) ==
  white_spaces[CHOOSE k \in 1..Len(white_spaces) :
                 /\ \A m \in 1..Len(white_spaces) :
                      white_spaces[k].priority <= white_spaces[m].priority
                 /\ \A m \in 1..(k - 1) :
                      white_spaces[m].priority > white_spaces[k].priority]

AdvanceGutterOnly(box_height) == Pt(15)

\* current_y += box_height + 15
Advance(box_height) == box_height + Pt(15)

\* The SmartAnnotationBox of the annotation ann, of the computed size, at current_y
SmartAnnotationBox(d, page_num, layout, primary_space, ann, current_y, size) ==
  [x |-> primary_space.x + Pt(5),
   y |-> current_y,
   width |-> size.width,
   height |-> size.height,
   text |-> ann.text,
   annotation_type |-> ann.ann_type,
   priority |-> ann.priority,
   content_relevance |-> find_content_relevance(ann.ann_type, layout.section_boundaries),
   color |-> ColorOf(ann.ann_type),
   related_highlights |-> find_content_highlights(d, page_num, ann.ann_type),
   target_content_area |->
     find_relevant_content_area(ann.ann_type, layout.section_boundaries,
                                layout.content_areas),
   page_num |-> page_num]

\* The placement loop of one page: i is the next annotation, current_y and boxes
\* the loop's variables.  PlaceStep is the loop's body given remaining_height,
\* PlaceBox the rest of the body given the box size.
\* the loop never stops for lack of room
NeverTooLittleRoom(remaining_height) == FALSE

\* if remaining_height < 45: break
TooLittleRoom(remaining_height) == remaining_height < Pt(45)

RECURSIVE PlaceLoop(_, _, _, _, _, _, _, _)
PlaceBox(d, page_num, layout, primary_space, page_annotations, i, current_y, boxes, size) ==
  PlaceLoop(d, page_num, layout, primary_space, page_annotations, i + 1,
            current_y + Advance(size.height),
            Append(boxes, SmartAnnotationBox(d, page_num, layout, primary_space,
                                             page_annotations[i], current_y, size)))

PlaceStep(d, page_num, layout, primary_space, page_annotations, i, current_y, boxes,
          remaining_height) ==
  IF TooLittleRoom(remaining_height) THEN boxes
  ELSE PlaceBox(d, page_num, layout, primary_space, page_annotations, i, current_y, boxes,
                calculate_optimal_box_size(page_annotations[i].text,
                                           page_annotations[i].priority,
                                           primary_space.width - Pt(10),
                                           remaining_height))

\* available_height is primary_space.height - 40 and start_y primary_space.y + 20
PlaceLoop(d, page_num, layout, primary_space, page_annotations, i, current_y, boxes) ==
  IF i > Len(page_annotations) THEN boxes
  ELSE PlaceStep(d, page_num, layout, primary_space, page_annotations, i, current_y, boxes,
                 (primary_space.height - Pt(40))
                 - (current_y - (primary_space.y + Pt(20))))

\* The loop from current_y = start_y on
PlaceIn(d, page_num, layout, primary_space, page_annotations) ==
  PlaceLoop(d, page_num, layout, primary_space, page_annotations, 1,
            primary_space.y + Pt(20), <<>>)

generate_page_annotations_distributed(d, page_num, layout, page_annotations) ==
  IF layout.white_spaces = <<>> \/ page_annotations = <<>> THEN <<>>
  ELSE PlaceIn(d, page_num, layout, primary_space_of(layout.white_spaces),
               page_annotations)

\* smart_boxes, given the page_annotations of every page
generate_smart_annotation_boxes(d, layouts, page_annotations_list) ==
  LET RECURSIVE Pages(_)
      Pages(page_num) ==
        IF page_num >= Len(layouts) THEN <<>>
        ELSE generate_page_annotations_distributed(
               d, page_num, layouts[page_num + 1], page_annotations_list[page_num + 1])
             \o Pages(page_num + 1)
  IN  Pages(0)

(***************************************************************************)
(* Rendering                                                               *)
(***************************************************************************)
\* The icons of _get_smart_annotation_icon.  Each emoji is one character of
\* the display text; they are written here as one-character ASCII stand-ins.
smart_annotation_icons ==
  << <<"engagement", ">">>, <<"assessment", "%">>, <<"differentiation", "+">>,
     <<"strength", "!">>, <<"improvement", "&">>, <<"resource", "=">>,
     <<"extension", "^">>, <<"cultural", "@">> >>

get_smart_annotation_icon(annotation_type) ==
  IF HasKey(smart_annotation_icons, annotation_type)
  THEN DictGet(smart_annotation_icons, annotation_type) ELSE "?"

\* fitz.Rect(x0, y0, x1, y1), its width and height
Rect(x0, y0, x1, y1) == <<x0, y0, x1, y1>>

RectWidth(rect) == rect[3] - rect[1]

RectHeight(rect) == rect[4] - rect[2]

\* f"{icon} {box.text}".split(): the icon, then the words of the text
DisplayWords(icon, text) == <<icon>> \o WordsOf(text)

\* lines[i-1][:-3] + "..." if len(lines[i-1]) > 3 else "..."
TruncatedLine(line) ==
  IF Len(line) > 3 THEN SubSeq(line, 1, Len(line) - 3) \o "..." ELSE "..."

\* page.insert_text(fitz.Point(x, y), text, fontsize=..., fontname=...)
InsertText(x, y, text, fontsize, fontname) ==
  [x |-> x, y |-> y, text |-> text, fontsize |-> fontsize, fontname |-> fontname]

\* The loop over enumerate(lines): i counts from 0, lines[i + 1] is the i-th
\* line; the result is the insert_text calls made.
RECURSIVE TextLoop(_, _, _, _, _, _)
TextLoop(lines, i, y_offset, rect, font_size, inserted) ==
  IF i >= Len(lines) THEN inserted
  ELSE IF y_offset + Pt(font_size + 3) > RectHeight(rect) - Pt(8)
  THEN (IF i > 0
        THEN Append(inserted,
                    InsertText(rect[1] + Pt(6),
                               rect[2] + (y_offset - Pt(font_size + 3))
                                 + Pt(font_size + 3),
                               TruncatedLine(lines[i]), font_size, "helv"))
        ELSE inserted)
  ELSE TextLoop(lines, i + 1, y_offset + Pt(font_size + 3), rect, font_size,
                Append(inserted,
                       InsertText(rect[1] + Pt(6), rect[2] + y_offset + Pt(font_size + 3),
                                  lines[i + 1], font_size,
                                  IF i = 0 THEN "hebo" ELSE "helv")))

\* _add_smart_text on the words of the display text: max_width is
\* rect.width - 12 and the lines are those of _calculate_text_dimensions
add_smart_text(words, rect, priority) ==
  TextLoop(WrapLoop(words, 1,
                    IntDiv(RectWidth(rect) - Pt(12), FontSize(priority) * 5), <<>>, ""),
           0, Pt(8), rect, FontSize(priority), <<>>)

\* The rectangles drawn for a box: background, three gradient rectangles, the
\* white text rectangle, the shadow and the border
BoxRects(box) ==
  <<Rect(box.x, box.y, box.x + box.width, box.y + box.height),
    Rect(box.x, box.y, box.x + box.width, box.y + box.height),
    Rect(box.x + Pt(1), box.y + Pt(1), box.x + box.width - Pt(1),
         box.y + box.height - Pt(1)),
    Rect(box.x + Pt(2), box.y + Pt(2), box.x + box.width - Pt(2),
         box.y + box.height - Pt(2)),
    Rect(box.x + Pt(3), box.y + Pt(3), box.x + box.width - Pt(3),
         box.y + box.height - Pt(3)),
    Rect(box.x + Pt(5), box.y + Pt(5), box.x + box.width - Pt(1),
         box.y + box.height - Pt(1)),
    Rect(box.x, box.y, box.x + box.width, box.y + box.height)>>

add_smart_annotation_box(box) ==
  [op |-> "annotation_box", page_num |-> box.page_num,
   rects |-> BoxRects(box), border_width |-> box.priority, color |-> box.color,
   inserted |->
     add_smart_text(DisplayWords(get_smart_annotation_icon(box.annotation_type),
                                 box.text),
                    Rect(box.x + Pt(3), box.y + Pt(3), box.x + box.width - Pt(3),
                         box.y + box.height - Pt(3)),
                    box.priority)]

add_content_highlight(page_num, highlight) ==
  [op |-> "highlight", page_num |-> page_num,
   rect |-> Rect(highlight.x, highlight.y, highlight.x + highlight.width,
                 highlight.y + highlight.height),
   color |-> highlight.highlight_color]

\* The connector from the box to target_area = (x, y, w, h); the middle heights
\* from_y and to_y are kept doubled (from_y2 = 2 * from_y) to stay whole
add_visual_connector(box, target_area) ==
  [op |-> "connector", page_num |-> box.page_num,
   from_x |-> box.x, from_y2 |-> 2 * box.y + box.height,
   to_x |-> IF box.x < target_area[1] THEN target_area[1]
            ELSE target_area[1] + target_area[3],
   to_y2 |-> 2 * target_area[2] + target_area[4],
   color |-> box.color]

\* The box drawn first, its highlights and its connector over it
BoxBeneathOps(box) ==
  <<add_smart_annotation_box(box)>>
  \o [k \in 1..Len(box.related_highlights) |->
       add_content_highlight(box.page_num, box.related_highlights[k])]
  \o (IF box.target_content_area # <<>>
      THEN <<add_visual_connector(box, box.target_content_area)>> ELSE <<>>)

\* What is drawn for one box: its highlights, its connector, the box itself
BoxOps(box) ==
  [k \in 1..Len(box.related_highlights) |->
     add_content_highlight(box.page_num, box.related_highlights[k])]
  \o (IF box.target_content_area # <<>>
      THEN <<add_visual_connector(box, box.target_content_area)>> ELSE <<>>)
  \o <<add_smart_annotation_box(box)>>

\* The keys of page_boxes, in insertion order
RECURSIVE PageNumsOf(_, _)
PageNumsOf(boxes, seen) ==
  IF boxes = <<>> THEN seen
  ELSE PageNumsOf(Tail(boxes),
                  IF InSeq(Head(boxes).page_num, seen) THEN seen
                  ELSE Append(seen, Head(boxes).page_num))

\* page_boxes[page_num], drawn box after box
RECURSIVE OpsOfPage(_, _)
OpsOfPage(boxes, page_num) ==
  IF boxes = <<>> THEN <<>>
  ELSE (IF Head(boxes).page_num = page_num THEN BoxOps(Head(boxes)) ELSE <<>>)
       \o OpsOfPage(Tail(boxes), page_num)

RECURSIVE ApplyPages(_, _, _)
ApplyPages(d, boxes, page_nums) ==
  IF page_nums = <<>> THEN <<>>
  ELSE (IF Head(page_nums) < Len(d) THEN OpsOfPage(boxes, Head(page_nums)) ELSE <<>>)
       \o ApplyPages(d, boxes, Tail(page_nums))

apply_smart_annotations(d, boxes) == ApplyPages(d, boxes, PageNumsOf(boxes, <<>>))

\* only the pages something was drawn on
RECURSIVE PagesDrawnOn(_, _, _)
PagesDrawnOn(d, drawing_calls, page_num) ==
  IF page_num >= Len(d) THEN <<>>
  ELSE (IF \E k \in 1..Len(drawing_calls) : drawing_calls[k].page_num = page_num
        THEN <<d[page_num + 1]>> ELSE <<>>)
       \o PagesDrawnOn(d, drawing_calls, page_num + 1)

SaveAnnotatedPagesOnly(d, drawing_calls) ==
  [saved |-> TRUE, pages |-> PagesDrawnOn(d, drawing_calls, 0), drawn |-> drawing_calls]

\* self.doc.save(output_filename): the pages of the document with what was
\* drawn on them
save(d, drawing_calls) == [saved |-> TRUE, pages |-> d, drawn |-> drawing_calls]

(***************************************************************************)
(* create_smart_overlay_pdf, step by step                                  *)
(***************************************************************************)
\* Nothing saved yet
NoOutput == [saved |-> FALSE, pages |-> <<>>, drawn |-> <<>>]

\* No /upload request is under way
NoUpload ==
  /\ now = 0
  /\ usage_records = <<>>
  /\ request_pc = <<>>
  /\ subscription_status = "free"

\* No create_combined_pdf call is under way
NoCombined ==
  /\ runs = <<>>
  /\ temp_files = <<>>
  /\ second = 0

\* if self.doc: None is false, and a document is false when len() of it is 0
Truthy(h, d) == h # "none" /\ Len(d) > 0

\* except Exception as e: print(...); if self.doc: self.doc.close(); return None
\* The state of the handle after the handler
HandleException(h, d) == IF Truthy(h, d) THEN "closed" ELSE h

Init ==
  /\ pc = "open"
  /\ doc = <<>>
  /\ pdf \in Documents
  /\ annotations_data \in PlanInputs
  /\ page_layouts = <<>>
  /\ categorized = <<>>
  /\ all_page_annotations = <<>>
  /\ smart_boxes = <<>>
  /\ drawn = <<>>
  /\ output = NoOutput
  /\ handle = "none"
  /\ error = "none"
  /\ output_file = "absent"
  /\ NoUpload
  /\ NoCombined

\* self.doc = fitz.open(self.original_pdf_path)
Open ==
  /\ pc = "open"
  /\ doc' = pdf
  /\ handle' = "open"
  /\ pc' = "analyze"
  /\ UNCHANGED <<pdf, annotations_data, page_layouts, categorized,
                 all_page_annotations, smart_boxes, drawn, output, error,
                 output_file>>
  /\ UNCHANGED uploadVars
  /\ UNCHANGED combinedVars

\* fitz.open raises (the file cannot be read): self.doc is still None
OpenFails ==
  /\ pc = "open"
  /\ error' = "open"
  /\ handle' = HandleException(handle, doc)
  /\ pc' = "failed"
  /\ UNCHANGED <<doc, pdf, annotations_data, page_layouts, categorized,
                 all_page_annotations, smart_boxes, drawn, output, output_file>>
  /\ UNCHANGED uploadVars
  /\ UNCHANGED combinedVars

\* self._analyze_page_layouts()
AnalyzePageLayouts ==
  /\ pc = "analyze"
  /\ page_layouts' = analyze_page_layouts(doc)
  /\ pc' = "categorize"
  /\ UNCHANGED <<doc, pdf, annotations_data, categorized, all_page_annotations,
                 smart_boxes, drawn, output, handle, error, output_file>>
  /\ UNCHANGED uploadVars
  /\ UNCHANGED combinedVars

\* page.get_text("dict") raises on page p of the document: the loop of
\* _analyze_page_layouts has no handler, self.page_layouts holds the pages
\* before p, and the exception reaches the handler of create_smart_overlay_pdf
AnalyzeFails ==
  /\ pc = "analyze"
  /\ \E p \in 1..Len(doc) :
       page_layouts' = analyze_page_layouts(SubSeq(doc, 1, p - 1))
  /\ error' = "layout"
  /\ handle' = HandleException(handle, doc)
  /\ pc' = "failed"
  /\ UNCHANGED <<doc, pdf, annotations_data, categorized, all_page_annotations,
                 smart_boxes, drawn, output, output_file>>
  /\ UNCHANGED uploadVars
  /\ UNCHANGED combinedVars

\* parameters = annotations_data.get('parameters_used', {})
\* categorized_annotations = self._categorize_annotations(annotations_data, parameters)
CategorizeAnnotations ==
  /\ pc = "categorize"
  /\ categorized' = Categorize(annotations_data)
  /\ pc' = "generate"
  /\ UNCHANGED <<doc, pdf, annotations_data, page_layouts, all_page_annotations,
                 smart_boxes, drawn, output, handle, error, output_file>>
  /\ UNCHANGED uploadVars
  /\ UNCHANGED combinedVars

\* smart_boxes = self._generate_smart_annotation_boxes(categorized_annotations)
GenerateSmartAnnotationBoxes ==
  /\ pc = "generate"
  /\ Len(page_layouts) > 0
  /\ all_page_annotations' =
       distribute(all_annotations_of(categorized), Len(page_layouts))
  /\ smart_boxes' =
       generate_smart_annotation_boxes(doc, page_layouts, all_page_annotations')
  /\ pc' = "apply"
  /\ UNCHANGED <<doc, pdf, annotations_data, page_layouts, categorized, drawn,
                 output, handle, error, output_file>>
  /\ UNCHANGED uploadVars
  /\ UNCHANGED combinedVars

\* len(all_annotations) // len(self.page_layouts) raises ZeroDivisionError when
\* the document has no page
GenerateFails ==
  /\ pc = "generate"
  /\ Len(page_layouts) = 0
  /\ error' = "placement"
  /\ handle' = HandleException(handle, doc)
  /\ pc' = "failed"
  /\ UNCHANGED <<doc, pdf, annotations_data, page_layouts, categorized,
                 all_page_annotations, smart_boxes, drawn, output, output_file>>
  /\ UNCHANGED uploadVars
  /\ UNCHANGED combinedVars

\* self._apply_smart_annotations(smart_boxes)
ApplySmartAnnotations ==
  /\ pc = "apply"
  /\ drawn' = apply_smart_annotations(doc, smart_boxes)
  /\ pc' = "save"
  /\ UNCHANGED <<doc, pdf, annotations_data, page_layouts, categorized,
                 all_page_annotations, smart_boxes, output, handle, error,
                 output_file>>
  /\ UNCHANGED uploadVars
  /\ UNCHANGED combinedVars

\* self.doc.save(output_filename); self.doc.close(); return output_filename
Save ==
  /\ pc = "save"
  /\ output' = save(doc, drawn)
  /\ output_file' = "complete"
  /\ handle' = "closed"
  /\ pc' = "done"
  /\ UNCHANGED <<doc, pdf, annotations_data, page_layouts, categorized,
                 all_page_annotations, smart_boxes, drawn, error>>
  /\ UNCHANGED uploadVars
  /\ UNCHANGED combinedVars

\* self.doc.save(output_filename) raises: the file could not be created, or the
\* write stopped part way (the disk is full) and what was written stays at
\* output_filename; the handler removes no file
SaveFails ==
  /\ pc = "save"
  /\ \E left \in {"absent", "partial"} : output_file' = left
  /\ error' = "save"
  /\ handle' = HandleException(handle, doc)
  /\ pc' = "failed"
  /\ UNCHANGED <<doc, pdf, annotations_data, page_layouts, categorized,
                 all_page_annotations, smart_boxes, drawn, output>>
  /\ UNCHANGED uploadVars
  /\ UNCHANGED combinedVars

Next ==
  \/ Open
  \/ OpenFails
  \/ AnalyzePageLayouts
  \/ AnalyzeFails
  \/ CategorizeAnnotations
  \/ GenerateSmartAnnotationBoxes
  \/ GenerateFails
  \/ ApplySmartAnnotations
  \/ Save
  \/ SaveFails

Spec == Init /\ [][Next]_vars

(***************************************************************************)
(* _categorize_annotations called twice on one annotator instance          *)
(***************************************************************************)
\* The instance is fresh (doc is None, no page layouts) or has analysed a document.
InitCategorize ==
  /\ pc = "first_call"
  /\ pdf \in {<<FullPage>>, <<WideRightMarginPage, FullPage>>}
  /\ doc \in {<<>>, pdf}
  /\ page_layouts = analyze_page_layouts(doc)
  /\ annotations_data \in AnnotationInputs
  /\ categorized = <<>>
  /\ all_page_annotations = <<>>
  /\ smart_boxes = <<>>
  /\ drawn = <<>>
  /\ output = NoOutput
  /\ handle = (IF doc = <<>> THEN "none" ELSE "open")
  /\ error = "none"
  /\ output_file = "absent"
  /\ NoUpload
  /\ NoCombined

\* self._categorize_annotations(annotations_data, parameters): the call reads its
\* arguments and returns the dict; it assigns no attribute of self.
CategorizeCall(from, to) ==
  /\ pc = from
  /\ categorized' = categorize_annotations(annotations_data,
                                           annotations_data.parameters_used)
  /\ pc' = to
  /\ UNCHANGED <<doc, pdf, annotations_data, page_layouts, all_page_annotations,
                 smart_boxes, drawn, output, handle, error, output_file>>
  /\ UNCHANGED uploadVars
  /\ UNCHANGED combinedVars

FirstCall == CategorizeCall("first_call", "second_call")

SecondCall == CategorizeCall("second_call", "done")

NextCategorize == FirstCall \/ SecondCall

SpecCategorize == InitCategorize /\ [][NextCategorize]_vars

(***************************************************************************)
(* The /upload requests of one user (src/app.py upload_file) and the rate  *)
(* limit of src/models.py.  Requests are served by concurrent workers: a   *)
(* request checks the limit, processes the lesson plan, and records its    *)
(* usage when the processing has succeeded.                                *)
(***************************************************************************)
\* The variables of create_smart_overlay_pdf
overlayVars == <<pc, doc, pdf, annotations_data, page_layouts, categorized,
                 all_page_annotations, smart_boxes, drawn, output, handle, error,
                 output_file>>

MaxRequests == 3

\* timedelta(hours=1), in ticks of the clock, and the last tick
HourTicks == 2

MaxTime == 3

FreeHourlyLimit == 5

PremiumHourlyLimit == 999999

is_premium(status) == status = "active"

get_hourly_usage_limit(status) ==
  IF is_premium(status) THEN PremiumHourlyLimit ELSE FreeHourlyLimit

\* UsageRecord rows of the user with created_at >= one_hour_ago
get_usage_count_last_hour(records, utcnow) ==
  Cardinality({k \in 1..Len(records) : records[k] >= utcnow - HourTicks})

can_run_annotation(status, records, utcnow) ==
  IF is_premium(status) THEN TRUE
  ELSE get_usage_count_last_hour(records, utcnow) < get_hourly_usage_limit(status)

\* The user has run 0..FreeHourlyLimit annotations at tick 0 and sends
\* MaxRequests requests.
InitUpload ==
  /\ pc = "idle"
  /\ doc = <<>>
  /\ pdf = <<>>
  /\ annotations_data = NoAnnotationsData
  /\ page_layouts = <<>>
  /\ categorized = <<>>
  /\ all_page_annotations = <<>>
  /\ smart_boxes = <<>>
  /\ drawn = <<>>
  /\ output = NoOutput
  /\ handle = "none"
  /\ error = "none"
  /\ output_file = "absent"
  /\ NoCombined
  /\ now = 0
  /\ usage_records \in {[k \in 1..n |-> 0] : n \in 0..FreeHourlyLimit}
  /\ request_pc = [r \in 1..MaxRequests |-> "start"]
  /\ subscription_status \in {"free", "active"}

\* if not current_user.can_run_annotation(): flash(...); return redirect(...)
CheckRateLimit(r) ==
  /\ request_pc[r] = "start"
  /\ request_pc' =
       [request_pc EXCEPT
          ![r] = IF can_run_annotation(subscription_status, usage_records, now)
                 THEN "processing" ELSE "rejected"]
  /\ UNCHANGED <<now, usage_records, subscription_status>>
  /\ UNCHANGED overlayVars
  /\ UNCHANGED combinedVars

\* The rest of upload_file: the file is refused, or the lesson plan is processed
\* and, if result["success"], a UsageRecord is added (created_at defaults to
\* datetime.utcnow()) and committed.
FinishUpload(r) ==
  /\ request_pc[r] = "processing"
  /\ \E file_ok, success \in BOOLEAN :
       IF file_ok /\ success
       THEN /\ usage_records' = Append(usage_records, now)
            /\ request_pc' = [request_pc EXCEPT ![r] = "done"]
       ELSE /\ usage_records' = usage_records
            /\ request_pc' = [request_pc EXCEPT ![r] = IF file_ok THEN "failed"
                                                      ELSE "no_file"]
  /\ UNCHANGED <<now, subscription_status>>
  /\ UNCHANGED overlayVars
  /\ UNCHANGED combinedVars

\* Time passes
Tick ==
  /\ now < MaxTime
  /\ now' = now + 1
  /\ UNCHANGED <<usage_records, request_pc, subscription_status>>
  /\ UNCHANGED overlayVars
  /\ UNCHANGED combinedVars

NextUpload ==
  \/ \E r \in 1..MaxRequests : CheckRateLimit(r)
  \/ \E r \in 1..MaxRequests : FinishUpload(r)
  \/ Tick

SpecUpload == InitUpload /\ [][NextUpload]_vars

(***************************************************************************)
(* create_combined_pdf (src/combined_pdf_annotator.py): the calls made by  *)
(* concurrent web requests share the working directory, where the          *)
(* temporary files are named after the second in which the call started.   *)
(***************************************************************************)
MaxRuns == 2

MaxSecond == 1

Runs == 1..MaxRuns

\* [temp_smart_overlay, temp_inline, temp_traditional]
Kinds == <<"smart_overlay", "inline", "traditional">>

\* f"temp_{kind}_{timestamp}.pdf", timestamp = datetime.now().strftime("%Y%m%d_%H%M%S")
TempName(kind, timestamp) == <<kind, timestamp>>

TempNames == {TempName(Kinds[k], t) : k \in 1..3, t \in 0..MaxSecond}

\* A file: the call that wrote it and whether it was written to the end;
\* NoFile where os.path.exists is false
NoFile == [writer |-> 0, complete |-> FALSE]

File(r, complete) == [writer |-> r, complete |-> complete]

FileExists(files, name) == files[name] # NoFile

\* A call that has not started; file is the position in the clean-up loop,
\* handling tells whether the call is inside its exception handler, generated
\* are the kinds of temporary file the call has written, merged the writers
\* of the files it merged (0 for a file it skipped)
IdleRun ==
  [at |-> "start", timestamp |-> 0, file |-> 0, handling |-> FALSE,
   generated |-> {}, merged |-> <<>>, result |-> "running"]

\* The file a generator leaves at name: the whole document, a part of it when
\* the write stopped part way, or nothing new when it failed before writing
Written(files, name, r, outcome) ==
  IF outcome = "absent" THEN files
  ELSE [files EXCEPT ![name] = File(r, outcome = "complete")]

GeneratedBy(generated, kind, outcome) ==
  IF outcome = "absent" THEN generated ELSE generated \cup {kind}

\* The handler returns None at once, leaving the temporary files
ReturnNoneAtOnce(run) ==
  [run EXCEPT !.at = "returned", !.handling = TRUE, !.result = "None"]

\* except Exception as e: print(...); for temp_file in [...]: the clean-up loop
\* of the handler starts
AfterException(run) ==
  [run EXCEPT !.at = "exists", !.file = 1, !.handling = TRUE]

\* The next iteration of a clean-up loop, or the return that follows the loop:
\* output_filename after the try block, None after the handler
NextTempFile(run) ==
  IF run.file < 3 THEN [run EXCEPT !.at = "exists", !.file = run.file + 1]
  ELSE [run EXCEPT !.at = "returned",
                   !.result = IF run.handling THEN "None" ELSE "output_filename"]

InitCombined ==
  /\ pc = "idle"
  /\ doc = <<>>
  /\ pdf = <<>>
  /\ annotations_data = NoAnnotationsData
  /\ page_layouts = <<>>
  /\ categorized = <<>>
  /\ all_page_annotations = <<>>
  /\ smart_boxes = <<>>
  /\ drawn = <<>>
  /\ output = NoOutput
  /\ handle = "none"
  /\ error = "none"
  /\ output_file = "absent"
  /\ NoUpload
  /\ runs = [r \in Runs |-> IdleRun]
  /\ temp_files = [name \in TempNames |-> NoFile]
  /\ second = 0

\* timestamp = datetime.now().strftime("%Y%m%d_%H%M%S") and the three names
StartRun(r) ==
  /\ runs[r].at = "start"
  /\ runs' = [runs EXCEPT ![r] = [@ EXCEPT !.at = "smart_overlay",
                                           !.timestamp = second]]
  /\ UNCHANGED <<temp_files, second>>
  /\ UNCHANGED overlayVars
  /\ UNCHANGED uploadVars

\* smart_generator.create_smart_overlay_pdf(annotations_data, temp_smart_overlay):
\* it returns the name or None and raises nothing; the result is not looked at
GenerateSmartOverlay(r) ==
  /\ runs[r].at = "smart_overlay"
  /\ \E outcome \in {"complete", "partial", "absent"} :
       /\ temp_files' = Written(temp_files, TempName("smart_overlay", runs[r].timestamp),
                                r, outcome)
       /\ runs' = [runs EXCEPT ![r] =
                     [@ EXCEPT !.at = "inline",
                               !.generated = GeneratedBy(@, "smart_overlay", outcome)]]
  /\ UNCHANGED second
  /\ UNCHANGED overlayVars
  /\ UNCHANGED uploadVars

\* A generator that raises when it fails: create_inline_annotated_pdf and
\* _create_color_coded_traditional_pdf
GenerateOrRaise(r, kind, next) ==
  /\ runs[r].at = kind
  /\ \E outcome \in {"complete", "partial", "absent"} :
       /\ temp_files' = Written(temp_files, TempName(kind, runs[r].timestamp), r, outcome)
       /\ runs' = [runs EXCEPT ![r] =
                     IF outcome = "complete"
                     THEN [@ EXCEPT !.at = next,
                                    !.generated = GeneratedBy(@, kind, outcome)]
                     ELSE AfterException([@ EXCEPT !.generated =
                                                     GeneratedBy(@, kind, outcome)])]
  /\ UNCHANGED second
  /\ UNCHANGED overlayVars
  /\ UNCHANGED uploadVars

\* inline_generator.create_inline_annotated_pdf(annotations_data, temp_inline)
GenerateInline(r) == GenerateOrRaise(r, "inline", "traditional")

\* self._create_color_coded_traditional_pdf(annotations_data, temp_traditional)
GenerateTraditional(r) == GenerateOrRaise(r, "traditional", "merge")

\* The writers of the files _combine_all_pdfs adds: 0 for a name at which
\* os.path.exists is false
MergedWriters(files, timestamp) ==
  [k \in 1..3 |-> files[TempName(Kinds[k], timestamp)].writer]

\* PdfReader can read every file that exists
AllReadable(files, timestamp) ==
  \A k \in 1..3 :
    FileExists(files, TempName(Kinds[k], timestamp))
      => files[TempName(Kinds[k], timestamp)].complete

\* self._combine_all_pdfs([temp_smart_overlay, temp_inline, temp_traditional],
\* output_filename): it raises when a file cannot be read or the output cannot
\* be written
CombineAllPdfs(r) ==
  /\ runs[r].at = "merge"
  /\ \E written \in BOOLEAN :
       runs' = [runs EXCEPT ![r] =
                  IF written /\ AllReadable(temp_files, runs[r].timestamp)
                  THEN [@ EXCEPT !.at = "exists", !.file = 1,
                                 !.merged = MergedWriters(temp_files, runs[r].timestamp)]
                  ELSE AfterException(@)]
  /\ UNCHANGED <<temp_files, second>>
  /\ UNCHANGED overlayVars
  /\ UNCHANGED uploadVars

\* if os.path.exists(temp_file):
CheckExists(r) ==
  /\ runs[r].at = "exists"
  /\ runs' = [runs EXCEPT ![r] =
                IF FileExists(temp_files, TempName(Kinds[@.file], @.timestamp))
                THEN [@ EXCEPT !.at = "remove"]
                ELSE NextTempFile(@)]
  /\ UNCHANGED <<temp_files, second>>
  /\ UNCHANGED overlayVars
  /\ UNCHANGED uploadVars

\* os.remove(temp_file): FileNotFoundError when the file has gone since the
\* test; raised in the try block it enters the handler, raised in the handler
\* it leaves create_combined_pdf
RemoveTempFile(r) ==
  /\ runs[r].at = "remove"
  /\ IF FileExists(temp_files, TempName(Kinds[runs[r].file], runs[r].timestamp))
     THEN /\ temp_files' =
               [temp_files EXCEPT ![TempName(Kinds[runs[r].file], runs[r].timestamp)] =
                                    NoFile]
          /\ runs' = [runs EXCEPT ![r] = NextTempFile(@)]
     ELSE /\ temp_files' = temp_files
          /\ runs' = [runs EXCEPT ![r] =
                        IF @.handling THEN [@ EXCEPT !.at = "raised", !.result = "raised"]
                        ELSE AfterException(@)]
  /\ UNCHANGED second
  /\ UNCHANGED overlayVars
  /\ UNCHANGED uploadVars

\* The clock reaches the next second
SecondPasses ==
  /\ second < MaxSecond
  /\ second' = second + 1
  /\ UNCHANGED <<runs, temp_files>>
  /\ UNCHANGED overlayVars
  /\ UNCHANGED uploadVars

NextCombined ==
  \/ \E r \in Runs : StartRun(r)
  \/ \E r \in Runs : GenerateSmartOverlay(r)
  \/ \E r \in Runs : GenerateInline(r)
  \/ \E r \in Runs : GenerateTraditional(r)
  \/ \E r \in Runs : CombineAllPdfs(r)
  \/ \E r \in Runs : CheckExists(r)
  \/ \E r \in Runs : RemoveTempFile(r)
  \/ SecondPasses

SpecCombined == InitCombined /\ [][NextCombined]_vars

(***************************************************************************)
(* Properties of the layout analysis and of the placement plan             *)
(***************************************************************************)
BoxIndices == 1..Len(smart_boxes)

SamePage(i, j) == smart_boxes[i].page_num = smart_boxes[j].page_num

\* The page a box was planned for, its layout and the region it was placed in
PageOf(box) == doc[box.page_num + 1]

LayoutOf(box) == page_layouts[box.page_num + 1]

RegionOf(box) == primary_space_of(LayoutOf(box).white_spaces)

\* The rectangle of the box and the bbox share a point of positive area
Intersects(box, bbox) ==
  /\ box.x < bbox[3] /\ bbox[1] < box.x + box.width
  /\ box.y < bbox[4] /\ bbox[2] < box.y + box.height

RECURSIVE Flatten(_)
Flatten(seqs) == IF seqs = <<>> THEN <<>> ELSE Head(seqs) \o Flatten(Tail(seqs))

Abs(n) == IF n >= 0 THEN n ELSE -n

\* C1: no emitted annotation box intersects a text block of its page, whichever
\* white-space region was selected.
NoBoxObscuresContent ==
  \A i \in BoxIndices :
    \A k \in 1..Len(PageOf(smart_boxes[i]).blocks) :
      PageOf(smart_boxes[i]).blocks[k].has_lines
        => ~Intersects(smart_boxes[i], PageOf(smart_boxes[i]).blocks[k].bbox)

\* C2: after layout analysis every page has at least one white-space region; when
\* no right, left or top margin qualifies the list is the fallback overlay.
WhiteSpacesNeverEmpty ==
  \A p \in 1..Len(page_layouts) :
    /\ Len(page_layouts[p].white_spaces) >= 1
    /\ (/\ page_layouts[p].margins.right <= Pt(60)
        /\ page_layouts[p].margins.left <= Pt(60)
        /\ page_layouts[p].margins.top <= Pt(40))
       => page_layouts[p].white_spaces[1].type = "right_overlay"

\* a page was analysed on which no margin qualifies, one with blocks and one
\* narrower than 500 points
WhiteSpacesFallbackReached ==
  \E p, q \in 1..Len(page_layouts) :
    /\ page_layouts[p].white_spaces[1].type = "right_overlay"
    /\ Len(page_layouts[p].white_spaces) = 2
    /\ page_layouts[q].white_spaces[1].type = "right_overlay"
    /\ Len(page_layouts[q].white_spaces) = 1

\* C3: every emitted annotation box is at least 150 wide and 50 high.
BoxesMeetMinimumSize ==
  \A i \in BoxIndices :
    smart_boxes[i].width >= Pt(150) /\ smart_boxes[i].height >= Pt(50)

\* a box planned in a region 150 wide (max_width 120 is below the minimum) and a
\* box whose text needs more than the minimum height
MinimumSizeApplied ==
  /\ \E i \in BoxIndices :
       RegionOf(smart_boxes[i]).width = Pt(150) /\ smart_boxes[i].width = Pt(150)
  /\ \E i \in BoxIndices : smart_boxes[i].height > Pt(50)

\* C4: every emitted annotation box lies entirely within the white-space region
\* it was placed in.
BoxesWithinRegion ==
  \A i \in BoxIndices :
    LET box == smart_boxes[i]
        region == RegionOf(box)
    IN  /\ region.x <= box.x
        /\ box.x + box.width <= region.x + region.width
        /\ region.y <= box.y
        /\ box.y + box.height <= region.y + region.height

\* C5: every emitted annotation box starts on its page and does not extend past
\* the page's right or bottom edge.
BoxesWithinPage ==
  \A i \in BoxIndices :
    LET box == smart_boxes[i]
        page == PageOf(box)
    IN  /\ 0 <= box.x /\ box.x <= page.width
        /\ 0 <= box.y /\ box.y <= page.height
        /\ box.x + box.width <= page.width
        /\ box.y + box.height <= page.height

\* C6: the boxes of one page never overlap vertically: each box starts 15 below
\* the bottom of the box before it, so the y-intervals of two boxes of a page
\* are disjoint.
BoxesNeverOverlapVertically ==
  \A i, j \in BoxIndices :
    (i < j /\ SamePage(i, j)) =>
      /\ smart_boxes[i].y + smart_boxes[i].height < smart_boxes[j].y
      /\ j = i + 1 =>
           smart_boxes[j].y = smart_boxes[i].y + smart_boxes[i].height + Pt(15)

\* a page with three boxes, one of them higher than the minimum
SeveralBoxesOnOnePage ==
  \E i \in BoxIndices :
    /\ i + 2 <= Len(smart_boxes)
    /\ SamePage(i, i + 1) /\ SamePage(i, i + 2)
    /\ smart_boxes[i].height > Pt(50)

\* C7: the distribution drops no insight: the page slices are contiguous and
\* disjoint index ranges of the flattened sequence that cover it, and
\* concatenated in page order they are the flattened sequence.
NoInsightDropped ==
  pc = "apply" =>
    LET all_annotations == all_annotations_of(categorized)
        total == Len(all_annotations)
        page_count == Len(page_layouts)
        From(p) == Min(StartIdx(p, page_count, total), total)
        To(p) == Min(EndIdx(p, page_count, total), total)
    IN  /\ page_count >= 1
        /\ Len(all_page_annotations) = page_count
        /\ Flatten(all_page_annotations) = all_annotations
        /\ From(0) = 0
        /\ To(page_count - 1) = total
        /\ \A p \in 0..(page_count - 1) :
             /\ From(p) <= To(p)
             /\ all_page_annotations[p + 1] = SubSeq(all_annotations, From(p) + 1, To(p))
             /\ p < page_count - 1 => To(p) = From(p + 1)

\* insights were distributed over several pages and the last page took more
\* than the others
LastPageAbsorbedRemainder ==
  /\ pc = "apply"
  /\ Len(page_layouts) >= 2
  /\ Len(all_page_annotations[1]) >= 1
  /\ Len(all_page_annotations[Len(page_layouts)]) > Len(all_page_annotations[1]) + 1

\* The number of insights of page page_num (0-based) of page_count pages, from
\* the total alone
ExpectedCount(total, page_count, page_num) ==
  IF total < page_count THEN (IF page_num < total THEN 1 ELSE 0)
  ELSE IF page_num < page_count - 1 THEN total \div page_count
  ELSE total - (page_count - 1) * (total \div page_count)

\* C8: the numbers of insights of two pages other than the last differ by at
\* most 1, the last page takes the rest, and the number of a page depends on the
\* total and the page count alone (8 insights over 2 pages: 4 and 4).
DistributionIsFair ==
  pc = "apply" =>
    LET total == Len(all_annotations_of(categorized))
        page_count == Len(page_layouts)
        Count(p) == Len(all_page_annotations[p + 1])
    IN  /\ \A p, q \in 0..(page_count - 2) : Abs(Count(p) - Count(q)) <= 1
        /\ \A p \in 0..(page_count - 1) : Count(p) = ExpectedCount(total, page_count, p)
        /\ Count(page_count - 1)
             = total - SeqSum([p \in 1..(page_count - 1) |-> Count(p - 1)])
        /\ (total = 8 /\ page_count = 2) => (Count(0) = 4 /\ Count(1) = 4)

\* 8 insights of three priorities over 2 pages: 4 and 4
EightOverTwoPages ==
  /\ pc = "apply"
  /\ Len(page_layouts) = 2
  /\ Len(all_annotations_of(categorized)) = 8
  /\ Len(all_page_annotations[1]) = 4
  /\ Len(all_page_annotations[2]) = 4
  /\ all_page_annotations[1][1].priority = 1
  /\ all_page_annotations[1][4].priority = 2
  /\ all_page_annotations[2][1].priority = 3

\* The place of a box's insight in the categorization: <<level, category, index>>
CategorizationPlace(box) ==
  CHOOSE place \in {<<l, c, k>> : l \in 1..3, c \in 1..8, k \in 1..3} :
    /\ place[1] <= Len(categorized)
    /\ place[2] <= Len(categorized[place[1]][2])
    /\ place[3] <= Len(categorized[place[1]][2][place[2]][2])
    /\ categorized[place[1]][2][place[2]][1] = box.annotation_type
    /\ categorized[place[1]][2][place[2]][2][place[3]] = box.text

\* C9: in the placement order of the boxes of a page the priority numbers never
\* decrease, and boxes of equal priority keep the order of the categorization.
PriorityOrderSurvives ==
  \A i, j \in BoxIndices :
    (i < j /\ SamePage(i, j)) =>
      /\ smart_boxes[i].priority <= smart_boxes[j].priority
      /\ smart_boxes[i].priority = smart_boxes[j].priority =>
           LET a == CategorizationPlace(smart_boxes[i])
               b == CategorizationPlace(smart_boxes[j])
           IN  a[2] < b[2] \/ (a[2] = b[2] /\ a[3] < b[3])

\* a page of a document of several pages with boxes of two priorities, two of
\* them of the same priority
MixedPrioritiesOnOnePage ==
  /\ Len(page_layouts) >= 2
  /\ \E i \in BoxIndices :
       /\ i + 2 <= Len(smart_boxes)
       /\ SamePage(i, i + 1) /\ SamePage(i, i + 2)
       /\ smart_boxes[i].priority < smart_boxes[i + 1].priority
       /\ smart_boxes[i + 1].priority = smart_boxes[i + 2].priority

AllContainedIn(text, points) == \A point \in points : Contains(text, point)

\* C11: every insight string retained by _extract_annotation_points is a
\* contiguous substring of the original annotation text once the emphasis markers
\* ('*') are stripped from it, for bullet lines (with or without a colon, with '-'
\* or '#' inside the text) and for standalone sentence lines.
InsightsAreSubstrings ==
  annotations_data.has_annotations
    => AllContainedIn(Remove(annotations_data.annotations, "*"), PointsOf(categorized))

\* The taxonomy in use: <<category key, section names>>, in order
TaxonomyOf(parameters) ==
  IF parameters.has_custom
  THEN [i \in 1..Len(parameters.custom_category_definitions) |->
          <<parameters.custom_category_definitions[i][1],
            SearchTerms(i - 1, parameters.custom_category_definitions[i][2])>>]
  ELSE DefaultTaxonomy[1][2] \o DefaultTaxonomy[2][2] \o DefaultTaxonomy[3][2]

\* The values the categorized output holds under a category key
CategoryPoints(cat, key) ==
  {cat[l][2][c][2] : <<l, c>> \in {<<l, c>> \in (1..Len(cat)) \X (1..8) :
                                     c <= Len(cat[l][2]) /\ cat[l][2][c][1] = key}}

\* A heading of the category / a heading of either convention
IsHeadingOf(view, low_names) == NamesSection(view.low, low_names) /\ view.marked

IsHeading(view) == StartsWith(view.line, "#")

\* The section of the category is missing, or each of its headings is followed
\* at once by the next heading
HasNoBulletLines(views, low_names) ==
  \A i \in 1..Len(views) :
    IsHeadingOf(views[i], low_names) => i < Len(views) /\ IsHeading(views[i + 1])

EmptyWhereNoBulletLines(views, taxonomy, cat) ==
  \A k \in 1..Len(taxonomy) :
    HasNoBulletLines(views, LowerAll(taxonomy[k][2]))
      => CategoryPoints(cat, taxonomy[k][1]) = {<<>>}

\* C12: when a category heading is followed by the next heading with no bullet
\* lines in between, and when the category's section is missing, the categorized
\* output holds that category's key with the empty list.
EmptySectionsYieldEmptyLists ==
  (pc # "first_call" /\ annotations_data.has_annotations)
    => EmptyWhereNoBulletLines(LineViews(annotations_data.annotations),
                               TaxonomyOf(annotations_data.parameters_used),
                               categorized)

\* The lists of insights of the categorized output, one per category
InsightLists(cat) ==
  {cat[l][2][c][2] : <<l, c>> \in {<<l, c>> \in (1..Len(cat)) \X (1..8) :
                                     c <= Len(cat[l][2])}}

\* C13: for every annotation text and every taxonomy (default or custom), each
\* category of the categorized output holds at most 3 insight strings, and every
\* retained insight string is non-empty.
AtMostThreeInsightsPerCategory ==
  \A points \in InsightLists(categorized) :
    /\ Len(points) <= 3
    /\ \A k \in 1..Len(points) : Len(points[k]) > 0

\* A section with four qualifying bullets was cut to its first three
FourthInsightCutOff ==
  /\ pc = "second_call"
  /\ Contains(annotations_data.annotations, "- Let students pick the next word list")
  /\ \E points \in InsightLists(categorized) :
       /\ Len(points) = 3
       /\ points[1] = "Invite families to share stories"
       /\ points[3] = "Read the chart together twice"

\* Line j belongs to the section of the category: a heading of the category
\* comes before it with no heading from there up to line j
InSectionOf(views, low_names, j) ==
  \E h \in 1..(j - 1) :
    /\ IsHeadingOf(views[h], low_names)
    /\ \A m \in (h + 1)..j : ~IsHeading(views[m])

\* The insights the lines of the category's section give
SectionInsights(views, low_names) ==
  UNION {{LinePoints(views[j].line)[k] : k \in 1..Len(LinePoints(views[j].line))} :
         j \in {j \in 1..Len(views) : InSectionOf(views, low_names, j)}}

InsightsComeFromOwnSection(views, taxonomy, cat) ==
  \A k \in 1..Len(taxonomy) :
    \A points \in CategoryPoints(cat, taxonomy[k][1]) :
      \A m \in 1..Len(points) :
        points[m] \in SectionInsights(views, LowerAll(taxonomy[k][2]))

\* C20: section extraction stops at the next heading: no line that follows the
\* next section header is attributed to the category and the header line itself
\* is never retained as an insight, for both header conventions
\* '### <n>. **<Category>**' and '## <Category>'.
ExtractionStopsAtNextHeading ==
  (pc # "first_call" /\ annotations_data.has_annotations)
    => InsightsComeFromOwnSection(LineViews(annotations_data.annotations),
                                  TaxonomyOf(annotations_data.parameters_used),
                                  categorized)

(***************************************************************************)
(* Properties of the layout analysis                                       *)
(***************************************************************************)
\* C14: the text density computed for a page is within [0, 1] (the summed block
\* areas never count for more than the page area), also when blocks overlap each
\* other or extend past the page.  The density is the fraction
\* text_density[1] / text_density[2].
TextDensityWithinUnit ==
  \A p \in 1..Len(page_layouts) :
    /\ page_layouts[p].text_density[1] >= 0
    /\ page_layouts[p].text_density[1] <= page_layouts[p].text_density[2]

\* The page has no block: the block list is absent, or present but empty
HasEmptyGeometry(page) == ~page.has_blocks \/ page.blocks = <<>>

\* C15: a page with empty geometry (block list absent, or present but empty)
\* yields default margins of 50 on all four sides, an empty content-area list and
\* an empty section list.
EmptyPageGetsDefaultMargins ==
  \A p \in 1..Len(page_layouts) :
    HasEmptyGeometry(doc[p])
      => /\ page_layouts[p].margins =
              [left |-> Pt(50), right |-> Pt(50), top |-> Pt(50), bottom |-> Pt(50)]
         /\ page_layouts[p].content_areas = <<>>
         /\ page_layouts[p].section_boundaries = <<>>

\* No margin of the page qualifies: right <= 60, left <= 60 and top <= 40
NoMarginQualifies(layout) ==
  /\ layout.margins.right <= Pt(60)
  /\ layout.margins.left <= Pt(60)
  /\ layout.margins.top <= Pt(40)

IsOverlay(region, type, x, priority) ==
  /\ region.type = type
  /\ region.x = x
  /\ region.width = Pt(180)
  /\ region.priority = priority

\* C16: when no margin qualifies, white_spaces is exactly a rank-1 right_overlay
\* with x = page_width - 200 and width 180, plus a rank-2 left_overlay if and only
\* if the page is wider than 500 units.
FallbackIsRightOverlayThenLeft ==
  \A p \in 1..Len(page_layouts) :
    NoMarginQualifies(page_layouts[p])
      => /\ Len(page_layouts[p].white_spaces) =
              (IF page_layouts[p].page_rect.width > Pt(500) THEN 2 ELSE 1)
         /\ IsOverlay(page_layouts[p].white_spaces[1], "right_overlay",
                      page_layouts[p].page_rect.width - Pt(200), 1)
         /\ page_layouts[p].page_rect.width > Pt(500)
              => IsOverlay(page_layouts[p].white_spaces[2], "left_overlay", Pt(20), 2)

\* A document with a wide and a narrow page where no margin qualifies
FallbackOnWideAndNarrowPage ==
  \E p, q \in 1..Len(page_layouts) :
    /\ NoMarginQualifies(page_layouts[p]) /\ NoMarginQualifies(page_layouts[q])
    /\ page_layouts[p].page_rect.width > Pt(500)
    /\ page_layouts[q].page_rect.width <= Pt(500)

(***************************************************************************)
(* Properties of the rendering and of the saved document                   *)
(***************************************************************************)
IsBoxOp(drawing) == drawing.op = "annotation_box"

\* " ".join(words)
RECURSIVE JoinWords(_)
JoinWords(words) ==
  IF words = <<>> THEN ""
  ELSE IF Len(words) = 1 THEN words[1]
  ELSE words[1] \o " " \o JoinWords(Tail(words))

\* The text inserted lies inside the rectangle: from its left end to its right
\* end (Len(text) characters of font_size * 0.5 points each) and from the top
\* of its characters to its baseline
LineInside(line, rect) ==
  /\ rect[1] <= line.x
  /\ line.x + Len(line.text) * (line.fontsize * 5) <= rect[3]
  /\ rect[2] <= line.y - Pt(line.fontsize)
  /\ line.y <= rect[4]

\* The lines inserted show the whole display text, or the last one ends with
\* an ellipsis
WholeOrEllipsis(inserted, box) ==
  \/ JoinWords([k \in 1..Len(inserted) |-> inserted[k].text])
       = JoinWords(DisplayWords(get_smart_annotation_icon(box.annotation_type),
                                box.text))
  \/ /\ inserted # <<>>
     /\ EndsWith(inserted[Len(inserted)].text, "...")

TextStaysInBoxes(box_ops, boxes) ==
  \A k \in 1..Len(box_ops) :
    /\ \A m \in 1..Len(box_ops[k].inserted) :
         LineInside(box_ops[k].inserted[m], box_ops[k].rects[1])
    /\ WholeOrEllipsis(box_ops[k].inserted, boxes[k])

\* C17: rendered text never leaves its box: when the wrapped text needs more
\* lines than fit, rendering stops and the last visible line ends with an
\* ellipsis, and no line is drawn outside the box bounds, vertically or
\* horizontally (a single word longer than a line's character budget included).
RenderedTextStaysInBox == TextStaysInBoxes(SelectSeq(drawn, IsBoxOp), smart_boxes)

\* C18: producing the overlay output never changes the document's page set: the
\* saved output has the pages of the original, as many and in the same order, and
\* every box is drawn on an existing page index.
PageSetPreserved ==
  /\ handle # "none" => doc = pdf
  /\ output.saved => output.pages = pdf /\ Len(output.pages) = Len(pdf)
  /\ \A k \in 1..Len(drawn) : drawn[k].page_num \in 0..(Len(pdf) - 1)
  /\ pc \in {"save", "done"} => Len(SelectSeq(drawn, IsBoxOp)) = Len(smart_boxes)

\* A document of several pages was saved with boxes on some pages and none on
\* another
SavedWithUnannotatedPage ==
  /\ output.saved
  /\ Len(output.pages) >= 2
  /\ output.drawn # <<>>
  /\ \E p \in 0..(Len(output.pages) - 1) :
       \A k \in 1..Len(output.drawn) : output.drawn[k].page_num # p

(***************************************************************************)
(* Properties of the rate limit                                            *)
(***************************************************************************)
\* The annotation runs completed in the hour that starts at tick t
RunsInHourFrom(t) ==
  Cardinality({k \in 1..Len(usage_records) :
                 t <= usage_records[k] /\ usage_records[k] < t + HourTicks})

\* C19: a free (non-premium) user never completes more than 5 annotation runs
\* within any one-hour window, for every interleaving of the user's upload
\* requests, requests that overlap in time included.
FreeUserWithinHourlyLimit ==
  subscription_status = "free"
    => \A t \in 0..MaxTime : RunsInHourFrom(t) <= FreeHourlyLimit

IsOnPage(box, page_num) == box.page_num = page_num

RECURSIVE BoxesOfPage(_, _)
BoxesOfPage(boxes, page_num) ==
  IF boxes = <<>> THEN <<>>
  ELSE (IF IsOnPage(Head(boxes), page_num) THEN <<Head(boxes)>> ELSE <<>>)
       \o BoxesOfPage(Tail(boxes), page_num)

\* The vertical space left in the region when current_y is y: region height - 40
\* minus the space consumed from start_y = region.y + 20 on
RemainingAt(region, y) == (region.height - Pt(40)) - (y - (region.y + Pt(20)))

\* The boxes of a page are a prefix of the insights assigned to it, each placed
\* with at least 45 left, one under the other; an insight is left out only when
\* less than 45 is left under the last box
CutoffRespected(boxes, assigned, region) ==
  /\ Len(boxes) <= Len(assigned)
  /\ \A j \in 1..Len(boxes) :
       /\ boxes[j].text = assigned[j].text
       /\ boxes[j].annotation_type = assigned[j].ann_type
       /\ boxes[j].y = (IF j = 1 THEN region.y + Pt(20)
                        ELSE boxes[j - 1].y + boxes[j - 1].height + Pt(15))
       /\ RemainingAt(region, boxes[j].y) >= Pt(45)
  /\ (boxes # <<>> /\ Len(boxes) < Len(assigned))
       => RemainingAt(region, boxes[Len(boxes)].y + boxes[Len(boxes)].height + Pt(15))
            < Pt(45)
  /\ (boxes = <<>> /\ assigned # <<>>) => RemainingAt(region, region.y + Pt(20)) < Pt(45)

\* C22: on a page, an assigned insight is placed if and only if every earlier
\* insight of the page was placed and the remaining vertical space is at least 45;
\* the placed boxes are a prefix of the page's assigned slice.
PlacedBoxesArePrefixUpToCutoff ==
  pc \in {"apply", "save", "done"}
    => \A p \in 1..Len(page_layouts) :
         CutoffRespected(BoxesOfPage(smart_boxes, p - 1), all_page_annotations[p],
                         primary_space_of(page_layouts[p].white_spaces))

\* On some page the first insights were placed and the last ones left out
InsightsLeftOutForLackOfRoom ==
  /\ pc = "apply"
  /\ \E p \in 1..Len(page_layouts) :
       /\ \E i \in BoxIndices : smart_boxes[i].page_num = p - 1
       /\ Len(BoxesOfPage(smart_boxes, p - 1)) < Len(all_page_annotations[p])

(***************************************************************************)
(* Properties relating planning and rendering                              *)
(***************************************************************************)
\* The lines computed for the text of a box when it was sized: max_width is
\* min(available_width - 20, 300) with available_width = region width - 10
PlannedLines(box, region) ==
  calculate_text_dimensions(box.text, FontSize(box.priority),
                            Min(region.width - Pt(10) - Pt(20), Pt(300))).lines

\* The lines computed when the box is rendered: the display text wrapped for
\* the width of the text rectangle less 12
RenderedLines(box) ==
  WrapLoop(DisplayWords(get_smart_annotation_icon(box.annotation_type), box.text), 1,
           IntDiv(box.width - Pt(6) - Pt(12), FontSize(box.priority) * 5), <<>>, "")

\* C23: planning and rendering wrap the same: for every box, the number of lines
\* computed when the text is rendered inside the box equals the number computed
\* when the box was sized, so the height planned is the height the text needs.
RenderingWrapsAsPlanned ==
  \A i \in BoxIndices :
    Len(RenderedLines(smart_boxes[i]))
      = Len(PlannedLines(smart_boxes[i], RegionOf(smart_boxes[i])))

\* The border of every box has the thickness of its priority number, and a box
\* of higher priority (a smaller number) has a border at least as thick
BordersFollowPriority(box_ops, boxes) ==
  /\ \A k \in 1..Len(box_ops) : box_ops[k].border_width = boxes[k].priority
  /\ \A k \in 1..Len(box_ops) : \A m \in 1..Len(box_ops) :
       boxes[k].priority < boxes[m].priority
         => box_ops[k].border_width >= box_ops[m].border_width

\* C24: border thickness follows priority: the border drawn around a box has
\* thickness equal to the box's priority number, and a higher-priority box
\* (high = 1) is drawn with a border at least as thick as that of any
\* lower-priority box (medium = 2, low = 3).
BorderThicknessFollowsPriority ==
  pc \in {"save", "done"}
    => BordersFollowPriority(SelectSeq(drawn, IsBoxOp), smart_boxes)

\* The positions of the annotation boxes among the drawing calls
RECURSIVE BoxOpPositions(_, _)
BoxOpPositions(ops, k) ==
  IF k > Len(ops) THEN <<>>
  ELSE (IF IsBoxOp(ops[k]) THEN <<k>> ELSE <<>>) \o BoxOpPositions(ops, k + 1)

\* The connector starts at the left edge of the box, at its middle height, on
\* the page of the box
IsConnectorOf(drawing, box) ==
  /\ drawing.op = "connector"
  /\ drawing.page_num = box.page_num
  /\ drawing.from_x = box.x
  /\ drawing.from_y2 = 2 * box.y + box.height

\* The connector runs through the text rectangle of the box: it reaches the
\* left side of the rectangle, 3 points inside the box, between its top and bottom
CrossesTextRect(connector, box) ==
  /\ connector.to_x - connector.from_x >= Pt(3)
  /\ Abs(connector.to_y2 - connector.from_y2) * Pt(3)
       <= (connector.to_x - connector.from_x) * (box.height - Pt(6))

\* The box drawn at position j is preceded by its n highlights and its c
\* connectors (c is 0 or 1), and none of its connectors is drawn after it
DrawnBeforeBox(ops, box, j, n, c) ==
  /\ j - n - c >= 1
  /\ \A h \in 1..n :
       ops[j - c - n + h - 1] = add_content_highlight(box.page_num, box.related_highlights[h])
  /\ c = 1 => ops[j - 1] = add_visual_connector(box, box.target_content_area)
  /\ \A i \in (j + 1)..Len(ops) : ~IsConnectorOf(ops[i], box)

HighlightsAndConnectorsBeneath(ops, boxes, positions) ==
  /\ Len(positions) = Len(boxes)
  /\ \A k \in 1..Len(positions) :
       DrawnBeforeBox(ops, boxes[k], positions[k], Len(boxes[k].related_highlights),
                      IF boxes[k].target_content_area # <<>> THEN 1 ELSE 0)

\* C25: draw order protects the text: for each box, its content highlights and
\* its connector are drawn before the box's own filled, white and border
\* rectangles, so no connector is drawn over the text rectangle of the
\* annotation it belongs to.
ConnectorsDrawnBeneathOwnBox ==
  pc \in {"save", "done"}
    => HighlightsAndConnectorsBeneath(drawn, smart_boxes, BoxOpPositions(drawn, 1))

\* A box was drawn over its highlights and over a connector that runs through
\* its own text rectangle
BoxDrawnOverCrossingConnector ==
  /\ pc = "done"
  /\ \E k \in BoxIndices :
       /\ smart_boxes[k].related_highlights # <<>>
       /\ smart_boxes[k].target_content_area # <<>>
       /\ CrossesTextRect(add_visual_connector(smart_boxes[k],
                                               smart_boxes[k].target_content_area),
                          smart_boxes[k])

(***************************************************************************)
(* Properties of the exits of create_smart_overlay_pdf                     *)
(***************************************************************************)
\* What create_smart_overlay_pdf returns: output_filename, or None from the
\* exception handler
Returned ==
  IF pc = "done" THEN "output_filename"
  ELSE IF pc = "failed" THEN "None" ELSE "running"

\* C27: when writing the final document fails, create_smart_overlay_pdf reports
\* failure to the caller (it does not return the output filename) and no partial
\* output file is left at the output path.
FailedWriteLeavesNoOutputFile ==
  error = "save" => Returned = "None" /\ output_file = "absent"

\* C28: the source document handle is released on every exit path: whenever
\* create_smart_overlay_pdf returns, after success or after an exception raised
\* in layout analysis, categorization, placement, rendering or saving, the
\* document it opened is closed.
DocumentClosedOnEveryExit ==
  Returned # "running" /\ handle # "none" => handle = "closed"

\* C29: a geometry extraction failure is local to its page: if the structured
\* text of one page cannot be parsed, layout analysis continues with the
\* remaining pages (every page has its layout, the failing one with default
\* margins and empty sections) and the operation still produces an output.
GeometryFailureIsLocalToItsPage ==
  error = "layout"
    => /\ Len(page_layouts) = Len(doc)
       /\ Returned # "None"

(***************************************************************************)
(* Properties of the temporary files of create_combined_pdf                *)
(***************************************************************************)
\* No temporary file written by call r is left under the names of call r
NoTempFileLeftBy(r, files, timestamp) ==
  \A k \in 1..3 : files[TempName(Kinds[k], timestamp)].writer # r

\* C26: temporary files are always removed: whenever create_combined_pdf returns,
\* with the output filename or with None after a failure in one of the generators
\* or in the merge, none of the three temporary files it wrote (smart overlay,
\* inline, traditional) exists any more.
TempFilesRemovedOnReturn ==
  \A r \in DOMAIN runs :
    runs[r].at = "returned" => NoTempFileLeftBy(r, temp_files, runs[r].timestamp)

\* A call has returned None after it had written temporary files, and another
\* has returned the output filename after merging its three files
ReturnedAfterFailureAndAfterSuccess ==
  /\ \E r \in DOMAIN runs :
       /\ runs[r].at = "returned"
       /\ runs[r].result = "None"
       /\ runs[r].generated # {}
  /\ \E r \in DOMAIN runs :
       /\ runs[r].at = "returned"
       /\ runs[r].result = "output_filename"
       /\ runs[r].merged = <<r, r, r>>

\* Call r merged only files it wrote itself
MergedOwnFiles(r, merged) == \A k \in 1..Len(merged) : merged[k] \in {0, r}

\* Every temporary file call r has written is still there, as r wrote it
OwnFilesIntact(r, files, run) ==
  \A k \in 1..3 :
    Kinds[k] \in run.generated => files[TempName(Kinds[k], run.timestamp)].writer = r

\* C30: two create_combined_pdf runs that overlap in time (for example two web
\* requests started in the same second) never interfere through their temporary
\* files: each run merges only the intermediate PDFs it generated itself, and
\* the files a run has generated are untouched by the other run until the run
\* has merged them.
RunsNeverInterfere ==
  \A r \in DOMAIN runs :
    /\ MergedOwnFiles(r, runs[r].merged)
    /\ runs[r].at \in {"inline", "traditional", "merge"}
         => OwnFilesIntact(r, temp_files, runs[r])

====
